---------------------------- MODULE Spec2Model ----------------------------
(***************************************************************************)
(* Verification model of the lappie retrieval pipeline:                    *)
(*   - the LLM reranker          (file_searcher/reranker.py)               *)
(*   - the chat client           (file_searcher/qa_development.py)         *)
(*   - the QA pipelines          (api/file_search_endpoints.py,            *)
(*                                api/api_main.py, qa_development*.py)     *)
(*   - the chunker               (file_searcher/chunker.py)                *)
(*   - the retriever             (file_searcher/search_development.py)     *)
(*   - the embedding step        (file_searcher/embed_development_chunks.py,*)
(*                                file_searcher/embeddings.py)             *)
(*   - the ingest step           (file_searcher/ingest_file_to_development.py)*)
(*   - the library and chat endpoints (api/api_main.py)                    *)
(*                                                                         *)
(* Nine specifications share the module:                                   *)
(*   SpecRerank   one direct invocation of rerank_candidates               *)
(*   Spec         one QA request through any of the five pipeline variants *)
(*   SpecChunk    one run of split_text_into_chunks, one loop step a time  *)
(*   SpecContext  one call of a context builder on one candidate           *)
(*   SpecEmbed    one run of embed_chunks_for_file                         *)
(*   SpecIngest   one run of ingest_file_to_development beside a reader    *)
(*   SpecLibrary  interleaved requests to /api/library/ingest              *)
(*   SpecChat     a sequence of requests to /api/chat                      *)
(*   SpecQa       interleaved requests to /api/file-search/qa              *)
(* Each specification pins the variables of the others to their idle       *)
(* values.                                                                 *)
(***************************************************************************)
EXTENDS Integers, Sequences, FiniteSets, TLC

VARIABLES
    \* ---- SpecRerank: one invocation of rerank_candidates
    rr_pc,          \* "idle" | "calling" | "returned" | "raised"
    rr_candidates,  \* the argument `candidates`
    rr_outcome,     \* what the generation service did with the one request
    rr_result,      \* the returned list (when rr_pc = "returned")
    rr_calls,       \* number of requests sent to the generation service
    \* ---- Spec: one QA request
    variant,        \* which pipeline runs
    req,            \* request parameters [top_k_final, top_n_candidates]
    store,          \* number of chunks in the vector store
    pc,             \* pipeline stage
    rows,           \* result of search_development
    candidates,     \* CandidateChunk list built from rows
    reranked,       \* result of rerank_candidates
    selected,       \* chunks put into the context
    context_str,    \* the assembled context (sequence of blocks)
    response,       \* what the pipeline returned to its caller
    calls,          \* log of requests sent to the generation service
    stages,         \* history: stages entered, in order
    \* ---- SpecChunk: one run of split_text_into_chunks
    input_text,              \* the argument `text`, a sequence of characters
    max_words,               \* the argument `max_words`
    overlap_words,           \* the argument `overlap_words`
    cpc,                     \* "idle" | "start" | "loop" | "slicing" | "done"
    paragraphs,              \* result of _split_into_paragraphs
    paragraph_char_offsets,  \* start offset of each paragraph
    para_idx,                \* index of the next paragraph (1-based)
    current_words,           \* words collected for the current chunk
    current_start_char,      \* None (-1) or the start offset of the chunk
    current_end_char,        \* None (-1) or the end offset of the chunk
    chunks,                  \* the chunks emitted so far
    chunk_index              \* index of the next chunk

VARIABLES
    \* ---- SpecContext: one call of a context builder on one candidate
    ctx_pc,         \* "idle" | "start" | "rows" | "reranked"
    ctx_content,    \* the candidate's content, a sequence of characters
    ctx_max_chars,  \* the argument `max_chars_per_chunk`
    ctx_block,      \* the blocks of the context built
    \* ---- SpecEmbed: one run of embed_chunks_for_file
    emb_pc,         \* "idle" | "start" | "embedding" | "deleted" |
                    \* "inserted" | "done" | "failed"
    emb_file,       \* is the path a file, has it a row in documents
    emb_rows,       \* the document's (chunk_id, content) by chunk_index
    emb_embeddings, \* the vectors embed_texts has collected
    emb_committed,  \* int.chunk_embeddings_development as committed
    emb_working,    \* the table as the open transaction sees it
    emb_before      \* history: the committed table when the run began

VARIABLES
    \* ---- SpecIngest: one run of ingest_file_to_development
    ing_pc,         \* "idle" | "start" | "open" | "deleting" | "inserting" |
                    \* "done" | "failed"
    ing_file,       \* is the path a file, can its text be extracted
    ing_new,        \* number of chunks split_text_into_chunks produced
    ing_next,       \* position in the list of chunks of the INSERT loop
    ing_committed,  \* the development tables as committed
    ing_working,    \* the tables as the open transaction sees them
    ing_before,     \* history: the committed tables when the run began
    ing_seen,       \* the document's chunks as another session last read them
    \* ---- SpecLibrary: requests to /api/library/ingest
    lib_req,        \* per request: its file path and whether it is acceptable
    lib_pc,         \* per request: "new" | "checked" | "ingested" |
                    \* "embedded" | "done" | "error"
    lib_already,    \* per request: the local `already_ingested`
    lib_ran,        \* history, per request: the steps that exited with code 0
    lib_status,     \* per request: the status returned ("" if none)
    lib_table,      \* the paths in library.ingested_files
    lib_initial,    \* history: the paths in the table at the beginning
    lib_writer,     \* history, per path: the request whose INSERT added it
    \* ---- SpecChat: requests to /api/chat, one after the other
    chat_pc,        \* "idle" | "between" | "session" | "rag" | "user" |
                    \* "assistant"
    chat_req,       \* the request served: its number and its session_id
    chat_session,   \* the local `session_id` after ensure_session
    chat_answer,    \* the answer run_rag_chat returned
    chat_sessions,  \* the session ids in chat_history.sessions
    chat_messages,  \* chat_history.messages, in the order of (created_at, id)
    chat_started,   \* history: the messages when the request began
    chat_count,     \* number of requests so far
    \* ---- SpecQa: requests to /api/file-search/qa at the same time
    qa_store,       \* number of chunks in the vector store
    qa              \* per request: the locals of its call of file_search_qa

rrVars   == <<rr_pc, rr_candidates, rr_outcome, rr_result, rr_calls>>
pipeVars == <<variant, req, store, pc, rows, candidates, reranked, selected,
              context_str, response, calls, stages>>
chunkVars == <<input_text, max_words, overlap_words, cpc, paragraphs,
               paragraph_char_offsets, para_idx, current_words,
               current_start_char, current_end_char, chunks, chunk_index>>
ctxVars  == <<ctx_pc, ctx_content, ctx_max_chars, ctx_block>>
embVars  == <<emb_pc, emb_file, emb_rows, emb_embeddings, emb_committed,
              emb_working, emb_before>>
\* the variables of the specifications other than SpecRerank, Spec, SpecChunk
ingVars  == <<ing_pc, ing_file, ing_new, ing_next, ing_committed, ing_working,
              ing_before, ing_seen>>
libVars  == <<lib_req, lib_pc, lib_already, lib_ran, lib_status, lib_table,
              lib_initial, lib_writer>>
chatVars == <<chat_pc, chat_req, chat_session, chat_answer, chat_sessions,
              chat_messages, chat_started, chat_count>>
qaVars   == <<qa_store, qa>>
\* the variables of the specifications of the ingest step and the endpoints
moreVars == <<ingVars, libVars, chatVars, qaVars>>
auxVars  == <<ctxVars, embVars, moreVars>>
vars     == <<rrVars, pipeVars, chunkVars, auxVars>>

-----------------------------------------------------------------------------
(* Bounds                                                                  *)

\* largest number of chunks in the store / candidates handed to the reranker
MaxN == 3
\* longest JSON list the model returns in a direct rerank invocation
MaxItems == 3
\* longest JSON list the model returns inside a pipeline run
PipeMaxItems == 2
\* largest top_k_final of a request
MaxTopK == 2

-----------------------------------------------------------------------------
(* Generic sequence helpers                                                *)

Range(s) == {s[i] : i \in DOMAIN s}

Min(a, b) == IF a <= b THEN a ELSE b

\* Python list(range(1, n + 1))
PyRange1(n) == [i \in 1..n |-> i]

\* all sequences over S of length 0..n
SeqsUpTo(S, n) == UNION {[1..k -> S] : k \in 0..n}

Take_all(s, k) == s

\* Python s[:k] for k >= 0
Take(s, k) == SubSeq(s, 1, Min(k, Len(s)))

-----------------------------------------------------------------------------
(* The vector store and search_development                                 *)

\* Distance of stored chunk k to the query, in tenths; chunks 2 and 3 tie.
Distance(k) == CASE k = 1 -> 2 [] k = 2 -> 5 [] k = 3 -> 5 [] OTHER -> 5 + k

\* Stored text of chunk k: characters, with surrounding blanks and a newline.
Content(k) == CASE k = 1 -> <<" ", "a", "\n", "b">>
                [] k = 2 -> <<"c", "d", " ">>
                [] OTHER -> <<"e">>

FileName(k) == IF k % 2 = 1 THEN "a.txt" ELSE "b.txt"

\* 1.0 - distance, in tenths
Score(k) == 10 - Distance(k)

\* orderings of the stored chunks 1..n by non-decreasing distance
\* (ORDER BY e.embedding <-> q.embedding; ties in any order)
OrderedByDistance(n) ==
    {p \in [1..n -> 1..n] :
        /\ \A i, j \in 1..n : i # j => p[i] # p[j]
        /\ \A i \in 1..(n - 1) : Distance(p[i]) <= Distance(p[i + 1])}

\* the row tuple (rank, score, file_name, chunk_index, content)
Row(rank, k) == [rank |-> rank, score |-> Score(k), file_name |-> FileName(k),
                 chunk_index |-> k - 1, content |-> Content(k)]

RowNumber_rank(p, i) ==
    1 + Cardinality({j \in DOMAIN p : Distance(p[j]) < Distance(p[i])})

\* ROW_NUMBER() OVER (ORDER BY e.embedding <-> q.embedding) of the i-th row
\* of the sorted rows p: the rows are numbered as they come out of the sort,
\* which is the one sort that also serves the query's ORDER BY of the same
\* expression.
RowNumber(p, i) == Cardinality({j \in DOMAIN p : j < i}) + 1

\* search_development(query, top_k): the possible results over a store of
\* n chunks: LIMIT top_k rows, rank = ROW_NUMBER() in distance order.
search_development(n, top_k) ==
    {[i \in 1..Min(top_k, n) |-> Row(RowNumber(p, i), p[i])] : p \in OrderedByDistance(n)}

\* candidates built by the callers: id = enumerate(rows, start=1)
MakeCandidates(rs) ==
    [i \in DOMAIN rs |->
        [id |-> i, rank |-> rs[i].rank, score |-> rs[i].score,
         file_name |-> rs[i].file_name, chunk_index |-> rs[i].chunk_index,
         content |-> rs[i].content]]

-----------------------------------------------------------------------------
(* The generation service and call_ollama_chat                             *)

\* One entry of a JSON list.  t is the JSON/Python type, v its numeric value
\* (true = 1, false = 0, the float is 1.0, the string is "1").
Items ==
    [t : {"int"}, v : 0..(MaxN + 1)]
        \cup {[t |-> "bool", v |-> 1], [t |-> "bool", v |-> 0],
              [t |-> "float", v |-> 1], [t |-> "str", v |-> 1],
              [t |-> "null", v |-> 0], [t |-> "nested", v |-> 0]}

\* The message content of a reply.
\*   missing : the reply has no message.content
\*   empty   : content is ""
\*   prose   : text that is not JSON
\*   json    : JSON text; isList says whether it is an array, items its entries
TextMissing == [form |-> "missing", isList |-> FALSE, items |-> <<>>]
TextEmpty   == [form |-> "empty", isList |-> FALSE, items |-> <<>>]
TextProse   == [form |-> "prose", isList |-> FALSE, items |-> <<>>]
TextJsonScalar == [form |-> "json", isList |-> FALSE, items |-> <<>>]
TextJsonList(its) == [form |-> "json", isList |-> TRUE, items |-> its]

Texts(maxLen) ==
    {TextMissing, TextEmpty, TextProse, TextJsonScalar}
        \cup {TextJsonList(its) : its \in SeqsUpTo(Items, maxLen)}

\* What the service does with one POST /api/chat.
Unreachable == [kind |-> "unreachable", content |-> TextMissing]
BadStatus   == [kind |-> "status", content |-> TextMissing]
Reply(text) == [kind |-> "ok", content |-> text]

ChatOutcomes(maxLen) ==
    {Unreachable, BadStatus} \cup {Reply(t) : t \in Texts(maxLen)}

\* no request was sent
NoOutcome == [kind |-> "none", content |-> TextMissing]

call_ollama_chat_lenient(outcome) ==
    IF outcome.kind # "ok" THEN [raised |-> TRUE, text |-> TextMissing]
    ELSE [raised |-> FALSE, text |-> outcome.content]

\* call_ollama_chat(prompt) against a service that behaves as `outcome`:
\* raises on a connection error, a status other than 200, and a reply whose
\* content is missing or empty; otherwise returns the content.
call_ollama_chat(outcome) ==
    IF outcome.kind # "ok" THEN [raised |-> TRUE, text |-> TextMissing]
    ELSE IF outcome.content.form \in {"missing", "empty"}
         THEN [raised |-> TRUE, text |-> TextMissing]
         ELSE [raised |-> FALSE, text |-> outcome.content]


-----------------------------------------------------------------------------
(* reranker.py: _parse_id_list                                             *)

\* json.loads(raw): raises on text that is not JSON, else yields the value
json_loads(raw) ==
    IF raw.form = "json"
    THEN [ok |-> TRUE, isList |-> raw.isList, items |-> raw.items]
    ELSE [ok |-> FALSE, isList |-> FALSE, items |-> <<>>]

\* isinstance(item, int) and 1 <= item <= max_id
\* (a Python bool is an int: True passes as 1, False fails as 0)
ValidItem(item, max_id) ==
    /\ item.t \in {"int", "bool"}
    /\ 1 <= item.v
    /\ item.v <= max_id

\* the loop collecting `ids`
FilterIds(items, max_id) ==
    LET kept == SelectSeq(items, LAMBDA it : ValidItem(it, max_id))
    IN  [i \in DOMAIN kept |-> kept[i].v]

RECURSIVE DedupeFrom(_, _, _)
DedupeFrom(ids, i, unique_ids) ==
    IF i > Len(ids) THEN unique_ids
    ELSE IF ids[i] \in Range(unique_ids)
         THEN DedupeFrom(ids, i + 1, unique_ids)
         ELSE DedupeFrom(ids, i + 1, Append(unique_ids, ids[i]))

Dedupe_keepAll(ids) == ids

\* "Remove duplicates while preserving order"
Dedupe(ids) == DedupeFrom(ids, 1, <<>>)

IdentityOrder_reversed(max_id) == [i \in 1..max_id |-> max_id + 1 - i]

\* the except branch: list(range(1, max_id + 1))
IdentityOrder(max_id) == PyRange1(max_id)

\* _parse_id_list(raw, max_id)
parse_id_list(raw, max_id) ==
    LET data == json_loads(raw)
    IN  IF ~data.ok THEN IdentityOrder(max_id)
        ELSE IF ~data.isList THEN IdentityOrder(max_id)
        ELSE LET ids == FilterIds(data.items, max_id)
             IN  IF ids = <<>> THEN IdentityOrder(max_id)
                 ELSE Dedupe(ids)

-----------------------------------------------------------------------------
(* reranker.py: rerank_candidates                                          *)

\* by_id = {c.id: c for c in candidates}; a later candidate with the same id
\* replaces an earlier one
HasId(cands, cid) == \E i \in DOMAIN cands : cands[i].id = cid
ById(cands, cid) ==
    cands[CHOOSE i \in DOMAIN cands :
            /\ cands[i].id = cid
            /\ \A j \in DOMAIN cands : cands[j].id = cid => j <= i]

Reorder_inputOrder(cands, id_order) ==
    SelectSeq(cands, LAMBDA c : c.id \in Range(id_order))

\* the loop over id_order: ids without a candidate are skipped
Reorder(cands, id_order) ==
    LET known == SelectSeq(id_order, LAMBDA cid : HasId(cands, cid))
    IN  [i \in DOMAIN known |-> ById(cands, known[i])]

AppendRemaining_dropped(cands, rer) == rer

\* if len(reranked) < len(candidates): extend with the candidates not in it
AppendRemaining(cands, rer) ==
    IF Len(rer) < Len(cands)
    THEN rer \o SelectSeq(cands, LAMBDA c : c \notin Range(rer))
    ELSE rer

rerank_candidates_swallow(cands, outcome) ==
    IF cands = <<>>
    THEN [raised |-> FALSE, result |-> <<>>, ncalls |-> 0]
    ELSE LET chat == call_ollama_chat(outcome)
         IN  IF chat.raised
             THEN [raised |-> FALSE, result |-> cands, ncalls |-> 1]
             ELSE [raised |-> FALSE,
                   result |-> AppendRemaining(cands,
                                Reorder(cands, parse_id_list(chat.text, Len(cands)))),
                   ncalls |-> 1]

rerank_candidates_retry(cands, outcome) ==
    IF cands = <<>>
    THEN [raised |-> FALSE, result |-> <<>>, ncalls |-> 0]
    ELSE LET chat == call_ollama_chat(outcome)
         IN  IF chat.raised
             THEN [raised |-> TRUE, result |-> <<>>, ncalls |-> 2]
             ELSE [raised |-> FALSE,
                   result |-> AppendRemaining(cands,
                                Reorder(cands, parse_id_list(chat.text, Len(cands)))),
                   ncalls |-> 1]

\* rerank_candidates(question, candidates) against a service that behaves as
\* `outcome`.  ncalls counts the requests sent to the service.
rerank_candidates(cands, outcome) ==
    IF cands = <<>>
    THEN [raised |-> FALSE, result |-> <<>>, ncalls |-> 0]
    ELSE LET chat == call_ollama_chat(outcome)
         IN  IF chat.raised
             THEN [raised |-> TRUE, result |-> <<>>, ncalls |-> 1]
             ELSE LET id_order == parse_id_list(chat.text, Len(cands))
                  IN  [raised |-> FALSE,
                       result |-> AppendRemaining(cands, Reorder(cands, id_order)),
                       ncalls |-> 1]

-----------------------------------------------------------------------------
(* SpecRerank: one direct invocation of rerank_candidates                  *)

\* candidate lists as the callers build them: the first n rows of a search
CandidateLists ==
    UNION {{MakeCandidates(rs) : rs \in search_development(n, n)} : n \in 0..MaxN}

IdleRerank ==
    /\ rr_pc = "idle"
    /\ rr_candidates = <<>>
    /\ rr_outcome = NoOutcome
    /\ rr_result = <<>>
    /\ rr_calls = 0

IdlePipeline ==
    /\ variant = "none"
    /\ req = [top_k_final |-> 0, top_n_candidates |-> 0]
    /\ store = 0
    /\ pc = "idle"
    /\ rows = <<>>
    /\ candidates = <<>>
    /\ reranked = <<>>
    /\ selected = <<>>
    /\ context_str = <<>>
    /\ response = [returned |-> FALSE, answer |-> "", context |-> <<>>]
    /\ calls = <<>>
    /\ stages = <<>>

IdleChunk ==
    /\ input_text = <<>>
    /\ max_words = 0
    /\ overlap_words = 0
    /\ cpc = "idle"
    /\ paragraphs = <<>>
    /\ paragraph_char_offsets = <<>>
    /\ para_idx = 0
    /\ current_words = <<>>
    /\ current_start_char = -1
    /\ current_end_char = -1
    /\ chunks = <<>>
    /\ chunk_index = 0

IdleContext ==
    /\ ctx_pc = "idle"
    /\ ctx_content = <<>>
    /\ ctx_max_chars = 0
    /\ ctx_block = <<>>

IdleEmbed ==
    /\ emb_pc = "idle"
    /\ emb_file = [is_file |-> FALSE, has_doc |-> FALSE]
    /\ emb_rows = <<>>
    /\ emb_embeddings = <<>>
    /\ emb_committed = {}
    /\ emb_working = {}
    /\ emb_before = {}

NoTables == [documents |-> {}, texts |-> {}, chunks |-> {}]

IdleIngest ==
    /\ ing_pc = "idle"
    /\ ing_file = [is_file |-> FALSE, readable |-> FALSE]
    /\ ing_new = 0
    /\ ing_next = 0
    /\ ing_committed = NoTables
    /\ ing_working = NoTables
    /\ ing_before = NoTables
    /\ ing_seen = {}

IdleLibrary ==
    /\ lib_req = <<>>
    /\ lib_pc = <<>>
    /\ lib_already = <<>>
    /\ lib_ran = <<>>
    /\ lib_status = <<>>
    /\ lib_table = {}
    /\ lib_initial = {}
    /\ lib_writer = <<>>

IdleChat ==
    /\ chat_pc = "idle"
    /\ chat_req = [number |-> 0, session_id |-> "none", result |-> ""]
    /\ chat_session = "none"
    /\ chat_answer = ""
    /\ chat_sessions = {}
    /\ chat_messages = <<>>
    /\ chat_started = <<>>
    /\ chat_count = 0

IdleQa ==
    /\ qa_store = 0
    /\ qa = <<>>

IdleMore ==
    /\ IdleIngest
    /\ IdleLibrary
    /\ IdleChat
    /\ IdleQa

IdleAux ==
    /\ IdleContext
    /\ IdleEmbed
    /\ IdleMore

InitRerank ==
    /\ rr_pc = "idle"
    /\ rr_candidates \in CandidateLists
    /\ rr_outcome = NoOutcome
    /\ rr_result = <<>>
    /\ rr_calls = 0
    /\ IdlePipeline
    /\ IdleChunk
    /\ IdleAux

\* rerank_candidates is entered: an empty list returns at once, otherwise
\* the prompt is built and posted to the generation service
RerankInvoke ==
    /\ rr_pc = "idle"
    /\ IF rr_candidates = <<>>
       THEN /\ rr_pc' = "returned"
            /\ rr_result' = rerank_candidates(rr_candidates, NoOutcome).result
            /\ rr_calls' = rr_calls + rerank_candidates(rr_candidates, NoOutcome).ncalls
       ELSE /\ rr_pc' = "calling"
            /\ rr_result' = rr_result
            /\ rr_calls' = rr_calls + 1
    /\ UNCHANGED <<rr_candidates, rr_outcome, pipeVars, chunkVars, auxVars>>

\* the service answers (or fails); rerank_candidates parses, reorders and
\* returns, or the error of call_ollama_chat propagates
RerankComplete ==
    /\ rr_pc = "calling"
    /\ \E outcome \in ChatOutcomes(MaxItems) :
         LET r == rerank_candidates(rr_candidates, outcome)
         IN  /\ rr_outcome' = outcome
             /\ rr_pc' = IF r.raised THEN "raised" ELSE "returned"
             /\ rr_result' = r.result
             /\ rr_calls' = r.ncalls
    /\ UNCHANGED <<rr_candidates, pipeVars, chunkVars, auxVars>>

NextRerank == RerankInvoke \/ RerankComplete

SpecRerank == InitRerank /\ [][NextRerank]_vars

-----------------------------------------------------------------------------
(* Context assembly: build_context_from_rows, build_context_from_reranked  *)

\* default of max_chars_per_chunk
MaxCharsPerChunk == 700
\* length of the snippet returned with each cited chunk
CitationChars == 140

IsSpace(ch) == ch \in {" ", "\n", "\t", "\r"}

RECURSIVE LStrip(_)
LStrip(s) == IF s # <<>> /\ IsSpace(Head(s)) THEN LStrip(Tail(s)) ELSE s

RECURSIVE RStrip(_)
RStrip(s) ==
    IF s # <<>> /\ IsSpace(s[Len(s)]) THEN RStrip(SubSeq(s, 1, Len(s) - 1)) ELSE s

\* str.strip()
Strip(s) == RStrip(LStrip(s))

\* str.replace("\n", " ")
ReplaceNewlines(s) == [i \in DOMAIN s |-> IF s[i] = "\n" THEN " " ELSE s[i]]

Ellipsis == <<".", ".", ".">>

Snippet_atLimit(content, max_chars) ==
    LET snippet == ReplaceNewlines(Strip(content))
    IN  IF Len(snippet) >= max_chars
        THEN SubSeq(snippet, 1, max_chars) \o Ellipsis
        ELSE snippet

\* snippet = content.strip().replace("\n", " "), cut to max_chars plus "..."
Snippet(content, max_chars) ==
    LET snippet == ReplaceNewlines(Strip(content))
    IN  IF Len(snippet) > max_chars
        THEN SubSeq(snippet, 1, max_chars) \o Ellipsis
        ELSE snippet

\* build_context_from_rows(rows): one block per row, in order; the blocks
\* are joined by a blank line.  A block is its header fields and its text.
build_context_from_rows(rs, max_chars) ==
    [i \in DOMAIN rs |->
        [label |-> rs[i].rank, rank |-> rs[i].rank, score |-> rs[i].score,
         file_name |-> rs[i].file_name, chunk_index |-> rs[i].chunk_index,
         text |-> Snippet(rs[i].content, max_chars)]]

\* build_context_from_reranked(reranked, max_context_chunks): the context of
\* the first max_context_chunks candidates, and those candidates
build_context_from_reranked(rer, max_context_chunks, max_chars) ==
    LET sel == Take(rer, max_context_chunks)
    IN  [context |->
            [i \in DOMAIN sel |->
                [label |-> sel[i].id, rank |-> sel[i].rank, score |-> sel[i].score,
                 file_name |-> sel[i].file_name, chunk_index |-> sel[i].chunk_index,
                 text |-> Snippet(sel[i].content, max_chars)]],
         selected |-> sel]

FakeRows_swapped(sel) ==
    [i \in DOMAIN sel |->
        [rank |-> sel[i].chunk_index, score |-> sel[i].score,
         file_name |-> sel[i].file_name, chunk_index |-> sel[i].rank,
         content |-> sel[i].content]]

\* fake_rows = [(c.rank, c.score, c.file_name, c.chunk_index, c.content)]
FakeRows(sel) ==
    [i \in DOMAIN sel |->
        [rank |-> sel[i].rank, score |-> sel[i].score,
         file_name |-> sel[i].file_name, chunk_index |-> sel[i].chunk_index,
         content |-> sel[i].content]]

\* the rows of a pipeline without reranking, seen as cited chunks: id = rank
RowsAsChunks(rs) ==
    [i \in DOMAIN rs |->
        [id |-> rs[i].rank, rank |-> rs[i].rank, score |-> rs[i].score,
         file_name |-> rs[i].file_name, chunk_index |-> rs[i].chunk_index,
         content |-> rs[i].content]]

-----------------------------------------------------------------------------
(* SpecContext: one call of a context builder on one candidate             *)

\* longest candidate content tried
MaxContentLen == 4
\* largest max_chars_per_chunk tried
MaxCtxChars == 3

\* the characters candidate contents are made of
ContentChars == {" ", "\n", "x"}

ContentChoices == SeqsUpTo(ContentChars, MaxContentLen)

\* the row / candidate a builder is called on
CtxRow(content) ==
    [rank |-> 1, score |-> 5, file_name |-> "a.txt", chunk_index |-> 0,
     content |-> content]

CtxCandidate(content) ==
    [id |-> 1, rank |-> 1, score |-> 5, file_name |-> "a.txt", chunk_index |-> 0,
     content |-> content]

InitContext ==
    /\ ctx_pc = "start"
    /\ ctx_content \in ContentChoices
    /\ ctx_max_chars \in 0..MaxCtxChars
    /\ ctx_block = <<>>
    /\ IdleRerank
    /\ IdlePipeline
    /\ IdleChunk
    /\ IdleEmbed
    /\ IdleMore

\* build_context_from_rows([row], max_chars_per_chunk = ctx_max_chars)
ContextFromRows ==
    /\ ctx_pc = "start"
    /\ ctx_block' = build_context_from_rows(<<CtxRow(ctx_content)>>, ctx_max_chars)
    /\ ctx_pc' = "rows"
    /\ UNCHANGED <<ctx_content, ctx_max_chars, rrVars, pipeVars, chunkVars, embVars, moreVars>>

\* build_context_from_reranked([candidate], max_chars_per_chunk = ctx_max_chars)
ContextFromReranked ==
    /\ ctx_pc = "start"
    /\ ctx_block' = build_context_from_reranked(<<CtxCandidate(ctx_content)>>,
                                                1, ctx_max_chars).context
    /\ ctx_pc' = "reranked"
    /\ UNCHANGED <<ctx_content, ctx_max_chars, rrVars, pipeVars, chunkVars, embVars, moreVars>>

NextContext == ContextFromRows \/ ContextFromReranked

SpecContext == InitContext /\ [][NextContext]_vars

-----------------------------------------------------------------------------
(* SpecEmbed: one run of embed_chunks_for_file                             *)

\* most chunks of the document that is embedded
MaxDocChunks == 2

\* chunk id of a chunk of another document
OtherChunk == 0

\* an embedding vector is known by the text it was computed from and by
\* whether this run computed it ("new") or it was stored before ("old")
OldVector(chunk_id) == [of |-> chunk_id, gen |-> "old"]
NewVector(content) == [of |-> content, gen |-> "new"]

\* a row of int.chunk_embeddings_development
EmbeddingRow(chunk_id, emb) == [chunk_id |-> chunk_id, embedding |-> emb]

\* the chunk rows a document can have: n chunks whose contents are 1..n in
\* chunk_index order and whose chunk ids are 1..n in any order
DocChunkRows ==
    UNION {{[i \in 1..n |-> [chunk_id |-> ids[i], content |-> i]] :
              ids \in {f \in [1..n -> 1..n] : \A i, j \in 1..n : i # j => f[i] # f[j]}} :
           n \in 0..MaxDocChunks}

\* load_chunks_for_doc: (chunk_id, content) ordered by chunk_index
load_chunks_for_doc(doc_rows) == doc_rows

\* replies of the embedding service to one text
EmbedReplies == {"ok", "unreachable", "status", "missing"}

\* one pass of the loop of _embed_ollama_batch: the reply to one text either
\* raises or appends the text's vector
embed_one(embeddings, content, reply) ==
    IF reply = "ok"
    THEN [raised |-> FALSE, embeddings |-> Append(embeddings, NewVector(content))]
    ELSE [raised |-> TRUE, embeddings |-> embeddings]

\* len(embeddings) != len(chunk_ids)
CountMismatch(embeddings, chunk_ids) == Len(embeddings) # Len(chunk_ids)

\* delete_embeddings_for_doc: the rows of the document's chunks go
delete_embeddings_for_doc(table, doc_rows) ==
    {r \in table : \A i \in DOMAIN doc_rows : r.chunk_id # doc_rows[i].chunk_id}

insert_embeddings_for_doc_shifted(table, chunk_ids, embeddings) ==
    table \cup {EmbeddingRow(chunk_ids[i], embeddings[Len(embeddings) + 1 - i]) :
                   i \in 1..Min(Len(chunk_ids), Len(embeddings))}

\* insert_embeddings_for_doc: one row per pair of zip(chunk_ids, embeddings)
insert_embeddings_for_doc(table, chunk_ids, embeddings) ==
    table \cup {EmbeddingRow(chunk_ids[i], embeddings[i]) :
                   i \in 1..Min(Len(chunk_ids), Len(embeddings))}

TransactionEnd_noRollback(raised, committed, working) == working

\* `with conn:` commits the transaction when the block ends and rolls it
\* back when an exception leaves it
TransactionEnd(raised, committed, working) ==
    IF raised THEN committed ELSE working

InitEmbed ==
    /\ emb_pc = "start"
    /\ emb_file \in [is_file : BOOLEAN, has_doc : BOOLEAN]
    /\ emb_rows \in DocChunkRows
    /\ emb_embeddings = <<>>
    /\ emb_committed \in SUBSET {EmbeddingRow(c, OldVector(c)) : c \in 0..Len(emb_rows)}
    /\ emb_working = emb_committed
    /\ emb_before = emb_committed
    /\ IdleRerank
    /\ IdlePipeline
    /\ IdleChunk
    /\ IdleContext
    /\ IdleMore

\* is_file(), resolve_doc_id_for_path, load_chunks_for_doc and `if not rows`
EmbedOpen ==
    /\ emb_pc = "start"
    /\ emb_pc' = IF ~emb_file.is_file THEN "failed"
                 ELSE IF ~emb_file.has_doc THEN "failed"
                 ELSE IF load_chunks_for_doc(emb_rows) = <<>> THEN "failed"
                 ELSE "embedding"
    /\ emb_committed' = TransactionEnd(TRUE, emb_committed, emb_working)
    /\ UNCHANGED <<emb_file, emb_rows, emb_embeddings, emb_working, emb_before,
                   rrVars, pipeVars, chunkVars, ctxVars, moreVars>>

\* embed_texts(contents): the request for the next text
EmbedOneText ==
    /\ emb_pc = "embedding"
    /\ Len(emb_embeddings) < Len(emb_rows)
    /\ \E reply \in EmbedReplies :
         LET r == embed_one(emb_embeddings,
                            emb_rows[Len(emb_embeddings) + 1].content, reply)
         IN  /\ emb_embeddings' = r.embeddings
             /\ emb_pc' = IF r.raised THEN "failed" ELSE "embedding"
             /\ emb_committed' = IF r.raised
                                 THEN TransactionEnd(TRUE, emb_committed, emb_working)
                                 ELSE emb_committed
    /\ UNCHANGED <<emb_file, emb_rows, emb_working, emb_before,
                   rrVars, pipeVars, chunkVars, ctxVars, moreVars>>

\* embed_texts has returned: the count check, then delete_embeddings_for_doc
EmbedCheckAndDelete ==
    /\ emb_pc = "embedding"
    /\ Len(emb_embeddings) = Len(emb_rows)
    /\ LET chunk_ids == [i \in DOMAIN emb_rows |-> emb_rows[i].chunk_id]
       IN  IF CountMismatch(emb_embeddings, chunk_ids)
           THEN /\ emb_pc' = "failed"
                /\ emb_committed' = TransactionEnd(TRUE, emb_committed, emb_working)
                /\ UNCHANGED emb_working
           ELSE /\ emb_pc' = "deleted"
                /\ emb_working' = delete_embeddings_for_doc(emb_working, emb_rows)
                /\ UNCHANGED emb_committed
    /\ UNCHANGED <<emb_file, emb_rows, emb_embeddings, emb_before,
                   rrVars, pipeVars, chunkVars, ctxVars, moreVars>>

\* insert_embeddings_for_doc; the database may refuse an INSERT, which
\* raises out of the `with conn:` block
EmbedInsert ==
    /\ emb_pc = "deleted"
    /\ \E accepted \in BOOLEAN :
         LET chunk_ids == [i \in DOMAIN emb_rows |-> emb_rows[i].chunk_id]
         IN  IF accepted
             THEN /\ emb_working' = insert_embeddings_for_doc(emb_working, chunk_ids,
                                                              emb_embeddings)
                  /\ emb_pc' = "inserted"
                  /\ UNCHANGED emb_committed
             ELSE /\ emb_pc' = "failed"
                  /\ emb_committed' = TransactionEnd(TRUE, emb_committed, emb_working)
                  /\ UNCHANGED emb_working
    /\ UNCHANGED <<emb_file, emb_rows, emb_embeddings, emb_before,
                   rrVars, pipeVars, chunkVars, ctxVars, moreVars>>

\* the `with conn:` block ends: commit
EmbedCommit ==
    /\ emb_pc = "inserted"
    /\ emb_committed' = TransactionEnd(FALSE, emb_committed, emb_working)
    /\ emb_pc' = "done"
    /\ UNCHANGED <<emb_file, emb_rows, emb_embeddings, emb_working, emb_before,
                   rrVars, pipeVars, chunkVars, ctxVars, moreVars>>

NextEmbed ==
    EmbedOpen \/ EmbedOneText \/ EmbedCheckAndDelete \/ EmbedInsert \/ EmbedCommit

SpecEmbed == InitEmbed /\ [][NextEmbed]_vars

-----------------------------------------------------------------------------
(* Spec: one QA request through one of the pipelines                       *)

\*   api_rerank  file_search_qa with use_rerank = true
\*   api_plain   file_search_qa with use_rerank = false
\*   rag_chat    run_rag_chat (behind /api/chat)
\*   cli_plain   answer_question
\*   cli_rerank  answer_question_with_rerank
Variants == {"api_rerank", "api_plain", "rag_chat", "cli_plain", "cli_rerank"}

UsesRerank(v) == v \in {"api_rerank", "cli_rerank"}

\* the top_k handed to search_development
SearchTopK(v, r) ==
    IF UsesRerank(v) THEN r.top_n_candidates ELSE r.top_k_final

\* the fixed answer of each pipeline when retrieval finds nothing
NoContextAnswer(v) ==
    CASE v \in {"api_rerank", "api_plain"} -> "No relevant context found."
      [] v = "rag_chat" ->
            "I couldn't find any relevant context in your development documents for that question."
      [] OTHER -> "No relevant context found for this question."

NoResponse == [returned |-> FALSE, answer |-> "", context |-> <<>>]

StageAfterRetrieval_noShortCircuit(v, rs) ==
    IF UsesRerank(v) THEN "RERANKING" ELSE "ASSEMBLING"

StageAfterRetrieval_skipRerank(v, rs) ==
    IF rs = <<>> THEN "NO_CONTEXT" ELSE "ASSEMBLING"

\* `if not rows: return ...`, then the reranked or the plain branch
StageAfterRetrieval(v, rs) ==
    IF rs = <<>> THEN "NO_CONTEXT"
    ELSE IF UsesRerank(v) THEN "RERANKING"
    ELSE "ASSEMBLING"

\* the chunks returned (or printed) with the answer
Citations(v, sel) ==
    [i \in DOMAIN sel |->
        [id |-> sel[i].id, orig_rank |-> sel[i].rank, orig_score |-> sel[i].score,
         file_name |-> sel[i].file_name, chunk_index |-> sel[i].chunk_index,
         snippet |-> IF v = "rag_chat" THEN sel[i].content
                     ELSE Snippet(sel[i].content, CitationChars)]]

\* replies to the answer-generation call
AnswerOutcomes ==
    {Unreachable, BadStatus, Reply(TextMissing), Reply(TextEmpty), Reply(TextProse)}

CallRecord(purpose, outcome) ==
    [purpose |-> purpose, kind |-> outcome.kind, form |-> outcome.content.form]

Init ==
    /\ variant \in Variants
    /\ req \in [top_k_final : 0..MaxTopK, top_n_candidates : 1..MaxN]
    /\ store \in 0..MaxN
    /\ pc = "RETRIEVING"
    /\ rows = <<>>
    /\ candidates = <<>>
    /\ reranked = <<>>
    /\ selected = <<>>
    /\ context_str = <<>>
    /\ response = NoResponse
    /\ calls = <<>>
    /\ stages = <<"RETRIEVING">>
    /\ IdleRerank
    /\ IdleChunk
    /\ IdleAux

\* search_development returns; an empty result ends the request with the
\* fixed answer, otherwise the candidates are built (reranked variants)
Retrieve ==
    /\ pc = "RETRIEVING"
    /\ \E rs \in search_development(store, SearchTopK(variant, req)) :
         LET next == StageAfterRetrieval(variant, rs)
         IN  /\ rows' = rs
             /\ pc' = next
             /\ stages' = Append(stages, next)
             /\ candidates' = IF next = "RERANKING" THEN MakeCandidates(rs) ELSE candidates
             /\ response' = IF next = "NO_CONTEXT"
                            THEN [returned |-> TRUE, answer |-> NoContextAnswer(variant),
                                  context |-> <<>>]
                            ELSE response
    /\ UNCHANGED <<variant, req, store, reranked, selected, context_str, calls, rrVars, chunkVars, auxVars>>

\* the embedding call or the query raises: the error leaves the pipeline
RetrieveFails ==
    /\ pc = "RETRIEVING"
    /\ pc' = "ERROR"
    /\ UNCHANGED <<variant, req, store, rows, candidates, reranked, selected,
                   context_str, response, calls, stages, rrVars, chunkVars, auxVars>>

\* rerank_candidates(question, candidates) runs to its end
Rerank ==
    /\ pc = "RERANKING"
    /\ \E outcome \in ChatOutcomes(PipeMaxItems) :
         LET r == rerank_candidates(candidates, outcome)
         IN  /\ calls' = calls \o [i \in 1..r.ncalls |-> CallRecord("rerank", outcome)]
             /\ IF r.raised
                THEN /\ pc' = "ERROR"
                     /\ UNCHANGED <<reranked, stages>>
                ELSE /\ pc' = "ASSEMBLING"
                     /\ reranked' = r.result
                     /\ stages' = Append(stages, "ASSEMBLING")
    /\ UNCHANGED <<variant, req, store, rows, candidates, selected, context_str,
                   response, rrVars, chunkVars, auxVars>>

\* the selected chunks and the context string are built
Assemble ==
    /\ pc = "ASSEMBLING"
    /\ CASE variant = "api_rerank" ->
              /\ selected' = Take(reranked, req.top_k_final)
              /\ context_str' = build_context_from_rows(
                                    FakeRows(Take(reranked, req.top_k_final)),
                                    MaxCharsPerChunk)
         [] variant = "cli_rerank" ->
              LET built == build_context_from_reranked(reranked, req.top_k_final,
                                                       MaxCharsPerChunk)
              IN  /\ selected' = built.selected
                  /\ context_str' = built.context
         [] OTHER ->
              /\ selected' = RowsAsChunks(rows)
              /\ context_str' = build_context_from_rows(rows, MaxCharsPerChunk)
    /\ pc' = "GENERATING"
    /\ stages' = Append(stages, "GENERATING")
    /\ UNCHANGED <<variant, req, store, rows, candidates, reranked, response,
                   calls, rrVars, chunkVars, auxVars>>

\* call_ollama_chat(prompt) for the answer; on success the answer and the
\* cited chunks are returned, on failure the error leaves the pipeline
Generate ==
    /\ pc = "GENERATING"
    /\ \E outcome \in AnswerOutcomes :
         LET chat == call_ollama_chat(outcome)
         IN  /\ calls' = Append(calls, CallRecord("answer", outcome))
             /\ IF chat.raised
                THEN /\ pc' = "ERROR"
                     /\ UNCHANGED <<response, stages>>
                ELSE /\ pc' = "DONE"
                     /\ response' = [returned |-> TRUE, answer |-> "model answer",
                                     context |-> Citations(variant, selected)]
                     /\ stages' = Append(stages, "DONE")
    /\ UNCHANGED <<variant, req, store, rows, candidates, reranked, selected,
                   context_str, rrVars, chunkVars, auxVars>>

Next == Retrieve \/ RetrieveFails \/ Rerank \/ Assemble \/ Generate

Spec == Init /\ [][Next]_vars

-----------------------------------------------------------------------------
(* Claims about rerank_candidates (checked under SpecRerank)               *)

RerankReturned == rr_pc = "returned"
RerankEnded == rr_pc \in {"returned", "raised"}

\* number of positions of s holding x
Occurrences(s, x) == Cardinality({i \in DOMAIN s : s[i] = x})

\* C1: for a non-empty candidate list with ids 1..N and any response text,
\* the list rerank_candidates returns has length N and holds every input
\* candidate exactly once, and nothing else.
C1_RerankIsPermutation ==
    (RerankReturned /\ rr_candidates # <<>>) =>
        /\ Len(rr_result) = Len(rr_candidates)
        /\ \A c \in Range(rr_candidates) : Occurrences(rr_result, c) = 1
        /\ Range(rr_result) \subseteq Range(rr_candidates)

\* C1 witness: three candidates, a list reply with a repeated id and an
\* unknown id, and the returned order differs from the input order.
C1_Witness ==
    /\ RerankReturned
    /\ Len(rr_candidates) = 3
    /\ rr_outcome.content.isList
    /\ Len(rr_outcome.content.items) = 3
    /\ \E i, j \in 1..3 : i # j /\ rr_outcome.content.items[i] = rr_outcome.content.items[j]
    /\ \E i \in 1..3 : rr_outcome.content.items[i] = [t |-> "int", v |-> 4]
    /\ rr_result # rr_candidates

\* an entry that is a JSON integer naming a candidate
IsIdEntry(item, n) == item.t = "int" /\ item.v \in 1..n

\* the response text is malformed for n candidates
Malformed(text, n) ==
    \/ text.form # "json"
    \/ ~text.isList
    \/ text.items = <<>>
    \/ \A i \in DOMAIN text.items : ~IsIdEntry(text.items[i], n)

\* C2: on a malformed rerank response (not JSON, not a list, an empty list,
\* a list without any id in 1..N) the candidates are returned in exactly
\* their input order.
C2_MalformedGivesIdentity ==
    (RerankReturned /\ Malformed(rr_outcome.content, Len(rr_candidates))) =>
        rr_result = rr_candidates

\* C2 witness: a non-empty list reply whose entries are all out of range or
\* not integers, for at least two candidates.
C2_Witness ==
    /\ RerankReturned
    /\ Len(rr_candidates) >= 2
    /\ rr_outcome.content.isList
    /\ Len(rr_outcome.content.items) >= 2
    /\ Malformed(rr_outcome.content, Len(rr_candidates))
    /\ \E i \in DOMAIN rr_outcome.content.items :
          rr_outcome.content.items[i].t = "int"
    /\ rr_result = rr_candidates

\* the reply is a JSON list from which the filter keeps at least one id
YieldsIds(text, n) ==
    /\ text.form = "json"
    /\ text.isList
    /\ FilterIds(text.items, n) # <<>>

\* C3: when the response yields a non-empty list of valid ids, the output is
\* the candidates named by those ids in the model's order, then every
\* candidate the model did not name in original relative order; the reply
\* [3,1,2] for three candidates gives C3,C1,C2.
C3_NamedThenRemaining ==
    (RerankReturned /\ YieldsIds(rr_outcome.content, Len(rr_candidates))) =>
        LET n == Len(rr_candidates)
            ids == parse_id_list(rr_outcome.content, n)
            named == [i \in DOMAIN ids |-> rr_candidates[ids[i]]]
            unnamed == SelectSeq(rr_candidates, LAMBDA c : c.id \notin Range(ids))
            int(v) == [t |-> "int", v |-> v]
        IN  /\ rr_result = named \o unnamed
            /\ Len(ids) = n => \A i \in 1..n : rr_result[i].id = ids[i]
            /\ (n = 3 /\ rr_outcome.content.items = <<int(3), int(1), int(2)>>) =>
                  rr_result = <<rr_candidates[3], rr_candidates[1], rr_candidates[2]>>

\* C3 witness: three candidates, the model names only candidate 3, and the
\* output is C3, C1, C2.
C3_Witness ==
    /\ RerankReturned
    /\ Len(rr_candidates) = 3
    /\ rr_outcome.content.isList
    /\ rr_outcome.content.items = <<[t |-> "int", v |-> 3]>>
    /\ rr_result = <<rr_candidates[3], rr_candidates[1], rr_candidates[2]>>

\* C8: whenever the service answers the rerank call successfully, whatever
\* text the model produced (also the empty text), rerank_candidates returns
\* normally with a full ordering and raises nothing.
C8_MalformedNeverSurfaces ==
    (RerankEnded /\ rr_outcome.kind = "ok" /\ rr_outcome.content.form # "missing") =>
        /\ rr_pc = "returned"
        /\ Len(rr_result) = Len(rr_candidates)

\* C9 as stated: every invocation, whatever the candidate list, sends
\* exactly one request.
C9_ExactlyOneCallAlways ==
    RerankEnded => rr_calls = 1

\* C9 amended: an invocation with a non-empty candidate list sends exactly
\* one request, also when the request fails (no retry); an invocation with
\* an empty list sends none.
C9_OneCallUnlessEmpty ==
    RerankEnded => rr_calls = (IF rr_candidates = <<>> THEN 0 ELSE 1)

\* C9 witness: the one request failed and the invocation ended with it.
C9_Witness ==
    /\ rr_pc = "raised"
    /\ rr_outcome.kind = "unreachable"
    /\ rr_calls = 1

-----------------------------------------------------------------------------
(* Claims about the QA pipelines (checked under Spec)                      *)

\* retrieval has returned (its result is in rows)
RetrievalReturned == Len(stages) >= 2

AnswerCalls == {i \in DOMAIN calls : calls[i].purpose = "answer"}
RerankCalls == {i \in DOMAIN calls : calls[i].purpose = "rerank"}

\* C4: in every pipeline variant, when retrieval returns the empty sequence
\* the pipeline ends at once with its fixed no-relevant-context answer and
\* an empty citation list, and sends no request to the generation service.
C4_EmptyRetrievalShortCircuits ==
    (RetrievalReturned /\ rows = <<>>) =>
        /\ pc = "NO_CONTEXT"
        /\ stages = <<"RETRIEVING", "NO_CONTEXT">>
        /\ response = [returned |-> TRUE, answer |-> NoContextAnswer(variant),
                       context |-> <<>>]
        /\ calls = <<>>
        /\ ~ENABLED Next

\* C4 witness: the reranked API path over an empty store has ended in
\* NO_CONTEXT.
C4_Witness ==
    /\ variant = "api_rerank"
    /\ store = 0
    /\ pc = "NO_CONTEXT"
    /\ response.returned

IsPrefix(s, t) == Len(s) <= Len(t) /\ s = SubSeq(t, 1, Len(s))

StagePaths ==
    {<<"RETRIEVING", "NO_CONTEXT">>,
     <<"RETRIEVING", "RERANKING", "ASSEMBLING", "GENERATING", "DONE">>,
     <<"RETRIEVING", "ASSEMBLING", "GENERATING", "DONE">>}

\* C5: the stages occur only in the order RETRIEVING, RERANKING, ASSEMBLING,
\* GENERATING, DONE; RERANKING is entered iff reranking is requested and
\* retrieval was non-empty; NO_CONTEXT follows RETRIEVING directly; no stage
\* repeats; the answer call is issued only after retrieval and reranking
\* have finished.
C5_StageOrder ==
    /\ \E path \in StagePaths : IsPrefix(stages, path)
    /\ pc \in {stages[Len(stages)], "ERROR"}
    /\ ("RERANKING" \in Range(stages)) <=> (UsesRerank(variant) /\ rows # <<>>)
    /\ \A i \in AnswerCalls :
          /\ "GENERATING" \in Range(stages)
          /\ rows # <<>>
          /\ IF UsesRerank(variant)
             THEN /\ i = 2
                  /\ calls[1].purpose = "rerank"
                  /\ Len(reranked) = Len(candidates)
             ELSE i = 1
    /\ \A i \in RerankCalls : i = 1 /\ rows # <<>>

\* C5 witness: a reranked request over a non-empty result went through all
\* five stages.
C5_Witness ==
    /\ UsesRerank(variant)
    /\ pc = "DONE"
    /\ stages = <<"RETRIEVING", "RERANKING", "ASSEMBLING", "GENERATING", "DONE">>
    /\ Len(calls) = 2

\* the request did not produce a usable reply
CallFailed(c) == c.kind # "ok" \/ c.form \in {"missing", "empty"}

\* C6: if the answer-generation call fails (unreachable, non-success status,
\* reply without content) the pipeline ends in an error: DONE is not reached,
\* nothing is returned, and the call is not repeated.
C6_AnswerFailureIsFatal ==
    \A i \in AnswerCalls :
        CallFailed(calls[i]) =>
            /\ pc = "ERROR"
            /\ "DONE" \notin Range(stages)
            /\ response = NoResponse
            /\ Cardinality(AnswerCalls) = 1
            /\ ~ENABLED Next

\* C6 witness: the answer call got a reply without content and the request
\* ended in an error.
C6_Witness ==
    /\ pc = "ERROR"
    /\ calls # <<>>
    /\ calls[Len(calls)].purpose = "answer"
    /\ calls[Len(calls)].kind = "ok"
    /\ calls[Len(calls)].form = "missing"

\* C7: if the call made by rerank_candidates fails in transport (connection
\* error, non-success status) rerank_candidates raises instead of returning
\* the identity order, and the pipeline sends no answer-generation call.
C7_RerankTransportFailureIsFatal ==
    \A i \in RerankCalls :
        calls[i].kind \in {"unreachable", "status"} =>
            /\ pc = "ERROR"
            /\ reranked = <<>>
            /\ "ASSEMBLING" \notin Range(stages)
            /\ AnswerCalls = {}
            /\ Cardinality(RerankCalls) = 1
            /\ response = NoResponse

\* C7 witness: the rerank call of the API path met a non-success status and
\* the request ended in an error after that single call.
C7_Witness ==
    /\ variant = "api_rerank"
    /\ pc = "ERROR"
    /\ Len(calls) = 1
    /\ calls[1].purpose = "rerank"
    /\ calls[1].kind = "status"

-----------------------------------------------------------------------------
(* chunker.py: text helpers                                                *)

\* most lines of an input text
MaxLines == 3
\* largest max_words tried
MaxMaxWords == 2
\* largest overlap_words tried
MaxOverlap == 2
\* the slicing loop is followed for at most this many emitted chunks
MaxChunks == 12

\* Python index normalisation inside a slice of a list of length n
PyIndex(i, n) == IF i < 0 THEN (IF i + n < 0 THEN 0 ELSE i + n) ELSE Min(i, n)

\* Python s[lo:hi]
PySlice(s, lo, hi) == SubSeq(s, PyIndex(lo, Len(s)) + 1, PyIndex(hi, Len(s)))

\* Python s[lo:]
PyFrom(s, lo) == SubSeq(s, PyIndex(lo, Len(s)) + 1, Len(s))

\* sep.join(parts)
RECURSIVE Join(_, _)
Join(parts, sep) ==
    IF parts = <<>> THEN <<>>
    ELSE IF Len(parts) = 1 THEN parts[1]
    ELSE parts[1] \o sep \o Join(Tail(parts), sep)

\* text.replace("\r\n", "\n")
RECURSIVE ReplaceCRLF(_)
ReplaceCRLF(s) ==
    IF s = <<>> THEN <<>>
    ELSE IF Len(s) >= 2 /\ s[1] = "\r" /\ s[2] = "\n"
         THEN <<"\n">> \o ReplaceCRLF(SubSeq(s, 3, Len(s)))
         ELSE <<s[1]>> \o ReplaceCRLF(Tail(s))

\* text.replace("\r", "\n")
ReplaceCR(s) == [i \in DOMAIN s |-> IF s[i] = "\r" THEN "\n" ELSE s[i]]

\* text.split("\n")
RECURSIVE SplitLinesFrom(_, _, _)
SplitLinesFrom(s, i, cur) ==
    IF i > Len(s) THEN <<cur>>
    ELSE IF s[i] = "\n" THEN <<cur>> \o SplitLinesFrom(s, i + 1, <<>>)
    ELSE SplitLinesFrom(s, i + 1, Append(cur, s[i]))

SplitLines(s) == SplitLinesFrom(s, 1, <<>>)

\* _normalize_text(text)
normalize_text(t) ==
    LET lines == SplitLines(ReplaceCR(ReplaceCRLF(t)))
    IN  Join([i \in DOMAIN lines |-> RStrip(lines[i])], <<"\n">>)

\* _split_into_paragraphs(text): the loop over the lines, then the last
\* paragraph
RECURSIVE ParagraphsFrom(_, _, _, _)
ParagraphsFrom(lines, i, current, paras) ==
    IF i > Len(lines)
    THEN IF current # <<>>
         THEN Append(paras, Strip(Join(current, <<" ">>)))
         ELSE paras
    ELSE IF Strip(lines[i]) = <<>>
         THEN IF current # <<>>
              THEN ParagraphsFrom(lines, i + 1, <<>>,
                                  Append(paras, Strip(Join(current, <<" ">>))))
              ELSE ParagraphsFrom(lines, i + 1, current, paras)
         ELSE ParagraphsFrom(lines, i + 1, Append(current, Strip(lines[i])), paras)

split_into_paragraphs(t) == ParagraphsFrom(SplitLines(t), 1, <<>>, <<>>)

\* str.split(): the maximal runs of non-blank characters
RECURSIVE SplitWordsFrom(_, _, _)
SplitWordsFrom(s, i, cur) ==
    IF i > Len(s) THEN (IF cur # <<>> THEN <<cur>> ELSE <<>>)
    ELSE IF IsSpace(s[i])
         THEN (IF cur # <<>> THEN <<cur>> ELSE <<>>) \o SplitWordsFrom(s, i + 1, <<>>)
         ELSE SplitWordsFrom(s, i + 1, Append(cur, s[i]))

SplitWords(s) == SplitWordsFrom(s, 1, <<>>)

\* number of words in the paragraphs before paragraph idx
RECURSIVE WordCountBefore(_, _)
WordCountBefore(paras, idx) ==
    IF idx <= 1 THEN 0
    ELSE WordCountBefore(paras, idx - 1) + Len(SplitWords(paras[idx - 1]))

\* words = para.split().  Each word carries its position in the document
\* (id), which the code does not store: it identifies the word in a chunk.
WordsOf(paras, idx) ==
    LET ws == SplitWords(paras[idx])
    IN  [i \in DOMAIN ws |-> [id |-> WordCountBefore(paras, idx) + i, chars |-> ws[i]]]

RECURSIVE CharOffset_noSeparator(_, _)
CharOffset_noSeparator(paras, idx) ==
    IF idx <= 1 THEN 0
    ELSE CharOffset_noSeparator(paras, idx - 1) + Len(paras[idx - 1])

\* global_char_pos before paragraph idx: sum of len(para) + 1
RECURSIVE CharOffset(_, _)
CharOffset(paras, idx) ==
    IF idx <= 1 THEN 0
    ELSE CharOffset(paras, idx - 1) + Len(paras[idx - 1]) + 1

\* " ".join(words).strip()
ContentOf(words) ==
    Strip(Join([i \in DOMAIN words |-> words[i].chars], <<" ">>))

WordIds(words) == [i \in DOMAIN words |-> words[i].id]

\* None is modelled as -1
None == -1

\* `x or 0`
Or0(x) == IF x = None \/ x = 0 THEN 0 ELSE x

\* TextChunk(content, ChunkMetadata(chunk_index, start_char, end_char)):
\*   start_char = current_start_char or 0
\*   end_char   = current_end_char or (current_start_char or 0) + len(content)
\* word_ids records which words make up the content, and origin which
\* statement appended the chunk: flush_current_chunk ("flush") or the
\* while loop ("slice"); the code stores neither.
MakeChunk(words, idx, start, endc) ==
    LET content == ContentOf(words)
    IN  [content |-> content,
         chunk_index |-> idx,
         start_char |-> Or0(start),
         end_char |-> IF endc # None /\ endc # 0 THEN endc
                      ELSE Or0(start) + Len(content),
         word_ids |-> WordIds(words),
         origin |-> "flush"]

flush_current_chunk_carry(cw, start, endc, chs, idx) ==
    IF cw = <<>>
    THEN [chunks |-> chs, chunk_index |-> idx, current_words |-> cw]
    ELSE [chunks |-> Append(chs, MakeChunk(cw, idx, start, endc)),
          chunk_index |-> idx + 1,
          current_words |-> PyFrom(cw, -1)]

flush_current_chunk_unguarded(cw, start, endc, chs, idx) ==
    [chunks |-> Append(chs, MakeChunk(cw, idx, start, endc)),
     chunk_index |-> idx + 1,
     current_words |-> <<>>]

\* flush_current_chunk(): the new values of chunks, chunk_index and
\* current_words
flush_current_chunk(cw, start, endc, chs, idx) ==
    IF cw = <<>>
    THEN [chunks |-> chs, chunk_index |-> idx, current_words |-> cw]
    ELSE IF ContentOf(cw) = <<>>
         THEN [chunks |-> chs, chunk_index |-> idx, current_words |-> cw]
         ELSE [chunks |-> Append(chs, MakeChunk(cw, idx, start, endc)),
               chunk_index |-> idx + 1,
               current_words |-> <<>>]

NeedsFlush_never(cw, para_word_count, maxw) == FALSE

NeedsFlush_atLimit(cw, para_word_count, maxw) ==
    cw # <<>> /\ (Len(cw) + para_word_count) >= maxw

\* current_words and (len(current_words) + para_word_count) > max_words
NeedsFlush(cw, para_word_count, maxw) ==
    cw # <<>> /\ (Len(cw) + para_word_count) > maxw

SliceWords_wide(cw, maxw) == PySlice(cw, 0, maxw + 1)

\* slice_words = current_words[:max_words]
SliceWords(cw, maxw) == PySlice(cw, 0, maxw)

OverlapSlice_none(cw, maxw, ov) == <<>>

OverlapSlice_short(cw, maxw, ov) == PySlice(cw, maxw - ov + 1, maxw)

\* overlap_slice = current_words[max_words - overlap_words : max_words]
OverlapSlice(cw, maxw, ov) == PySlice(cw, maxw - ov, maxw)

-----------------------------------------------------------------------------
(* SpecChunk: one run of split_text_into_chunks                            *)

\* the lines input texts are made of: blank, blanks only, one word, two
\* words with a double blank and a trailing blank, three words with a
\* leading blank and a trailing carriage return
LineChoices ==
    {<<>>,
     <<" ">>,
     <<"a">>,
     <<"b", "b", " ", " ", "c", " ">>,
     <<" ", "d", " ", "e", " ", "f", "\r">>}

TextChoices == {Join(ls, <<"\n">>) : ls \in SeqsUpTo(LineChoices, MaxLines)}

InitChunk ==
    /\ input_text \in TextChoices
    /\ max_words \in 1..MaxMaxWords
    /\ overlap_words \in 0..MaxOverlap
    /\ cpc = "start"
    /\ paragraphs = <<>>
    /\ paragraph_char_offsets = <<>>
    /\ para_idx = 0
    /\ current_words = <<>>
    /\ current_start_char = None
    /\ current_end_char = None
    /\ chunks = <<>>
    /\ chunk_index = 0
    /\ IdleRerank
    /\ IdlePipeline
    /\ IdleAux

\* normalise, split into paragraphs, compute the paragraph offsets
ChunkStart ==
    /\ cpc = "start"
    /\ LET paras == split_into_paragraphs(normalize_text(input_text))
       IN  /\ paragraphs' = paras
           /\ paragraph_char_offsets' = [i \in DOMAIN paras |-> CharOffset(paras, i)]
    /\ para_idx' = 1
    /\ cpc' = "loop"
    /\ UNCHANGED <<input_text, max_words, overlap_words, current_words,
                   current_start_char, current_end_char, chunks, chunk_index,
                   rrVars, pipeVars, auxVars>>

\* one pass of the loop over the paragraphs, up to the inner while loop
ChunkParagraph ==
    /\ cpc = "loop"
    /\ para_idx <= Len(paragraphs)
    /\ LET para == paragraphs[para_idx]
           words == WordsOf(paragraphs, para_idx)
           para_word_count == Len(words)
           para_start_char == paragraph_char_offsets[para_idx]
           para_end_char == para_start_char + Len(para)
           f == IF NeedsFlush(current_words, para_word_count, max_words)
                THEN flush_current_chunk(current_words, current_start_char,
                                         current_end_char, chunks, chunk_index)
                ELSE [chunks |-> chunks, chunk_index |-> chunk_index,
                      current_words |-> current_words]
           extended == f.current_words \o words
       IN  /\ chunks' = f.chunks
           /\ chunk_index' = f.chunk_index
           /\ current_start_char' = IF f.current_words = <<>> THEN para_start_char
                                    ELSE current_start_char
           /\ current_words' = extended
           /\ current_end_char' = para_end_char
           /\ IF Len(extended) > max_words
              THEN cpc' = "slicing" /\ para_idx' = para_idx
              ELSE cpc' = "loop" /\ para_idx' = para_idx + 1
    /\ UNCHANGED <<input_text, max_words, overlap_words, paragraphs,
                   paragraph_char_offsets, rrVars, pipeVars, auxVars>>

\* one pass of `while len(current_words) > max_words`
ChunkSlice ==
    /\ cpc = "slicing"
    /\ Len(chunks) < MaxChunks
    /\ LET slice_words == SliceWords(current_words, max_words)
           overlap_slice == OverlapSlice(current_words, max_words, overlap_words)
           rest == overlap_slice \o PyFrom(current_words, max_words)
       IN  /\ IF ContentOf(slice_words) # <<>>
              THEN /\ chunks' = Append(chunks,
                                    [MakeChunk(slice_words, chunk_index,
                                               current_start_char, current_end_char)
                                        EXCEPT !.origin = "slice"])
                   /\ chunk_index' = chunk_index + 1
              ELSE UNCHANGED <<chunks, chunk_index>>
           /\ current_words' = rest
           /\ IF Len(rest) > max_words
              THEN cpc' = "slicing" /\ para_idx' = para_idx
              ELSE cpc' = "loop" /\ para_idx' = para_idx + 1
    /\ UNCHANGED <<input_text, max_words, overlap_words, paragraphs,
                   paragraph_char_offsets, current_start_char, current_end_char,
                   rrVars, pipeVars, auxVars>>

\* the loop is over: flush whatever remains and return chunks
ChunkFinish ==
    /\ cpc = "loop"
    /\ para_idx > Len(paragraphs)
    /\ LET f == flush_current_chunk(current_words, current_start_char,
                                    current_end_char, chunks, chunk_index)
       IN  /\ chunks' = f.chunks
           /\ chunk_index' = f.chunk_index
           /\ current_words' = f.current_words
    /\ cpc' = "done"
    /\ UNCHANGED <<input_text, max_words, overlap_words, paragraphs,
                   paragraph_char_offsets, para_idx, current_start_char,
                   current_end_char, rrVars, pipeVars, auxVars>>

NextChunk == ChunkStart \/ ChunkParagraph \/ ChunkSlice \/ ChunkFinish

SpecChunk == InitChunk /\ [][NextChunk]_vars

-----------------------------------------------------------------------------
(* Claims about split_text_into_chunks (checked under SpecChunk)           *)

ChunkingDone == cpc = "done"

\* the characters of every word of the document, in document order
RECURSIVE DocWordsFrom(_, _)
DocWordsFrom(paras, idx) ==
    IF idx > Len(paras) THEN <<>>
    ELSE SplitWords(paras[idx]) \o DocWordsFrom(paras, idx + 1)

DocWords == DocWordsFrom(paragraphs, 1)

ParaWordCount(i) == Len(SplitWords(paragraphs[i]))

\* the positions in the document of the words of paragraph i
ParaWordIds(i) ==
    {WordCountBefore(paragraphs, i) + j : j \in 1..ParaWordCount(i)}

\* paragraph i stands in chunk c as one contiguous run, in order
WholeIn(c, i) ==
    \E k \in 0..(Len(c.word_ids) - ParaWordCount(i)) :
        \A j \in 1..ParaWordCount(i) :
            c.word_ids[k + j] = WordCountBefore(paragraphs, i) + j

\* chunk c holds at least one word of paragraph i
Touches(c, i) == \E p \in DOMAIN c.word_ids : c.word_ids[p] \in ParaWordIds(i)

\* the content of chunk c is its words, in order, separated by one blank
ContentIsItsWords(c) ==
    c.content = Join([p \in DOMAIN c.word_ids |-> DocWords[c.word_ids[p]]], <<" ">>)

\* C10: when chunking has returned, every paragraph of at most max_words
\* words stands whole in a single chunk (its words contiguous and in order
\* in that chunk's content), and no chunk holds only a part of it; also
\* when it follows the tail of an over-long paragraph.
C10_FittingParagraphNeverSplit ==
    ChunkingDone =>
        /\ \A n \in DOMAIN chunks : ContentIsItsWords(chunks[n])
        /\ \A i \in DOMAIN paragraphs :
              ParaWordCount(i) <= max_words =>
                  /\ \E n \in DOMAIN chunks : WholeIn(chunks[n], i)
                  /\ \A n \in DOMAIN chunks :
                        Touches(chunks[n], i) =>
                            /\ WholeIn(chunks[n], i)
                            /\ Cardinality({p \in DOMAIN chunks[n].word_ids :
                                   chunks[n].word_ids[p] \in ParaWordIds(i)})
                                 = ParaWordCount(i)

\* C10 witness: a one-word paragraph follows a three-word paragraph with
\* max_words = 2, and one chunk holds the tail of the long paragraph
\* followed by the whole short paragraph.
C10_Witness ==
    /\ ChunkingDone
    /\ max_words = 2
    /\ Len(paragraphs) >= 2
    /\ ParaWordCount(1) = 3
    /\ ParaWordCount(2) = 1
    /\ \E n \in DOMAIN chunks :
          /\ Touches(chunks[n], 1)
          /\ WholeIn(chunks[n], 2)


\* position in the document of the first and of the last word of paragraph i
FirstId(i) == WordCountBefore(paragraphs, i) + 1
LastId(i) == WordCountBefore(paragraphs, i) + ParaWordCount(i)

LongParagraph(i) == ParaWordCount(i) > max_words

\* the last k entries of s, and the entries after the first k
LastK(s, k) == SubSeq(s, Len(s) - k + 1, Len(s))
DropK(s, k) == SubSeq(s, k + 1, Len(s))

\* s is a run of consecutive positions
Consecutive(s) == \A p \in 1..(Len(s) - 1) : s[p + 1] = s[p] + 1

\* C11: with 0 <= overlap_words < max_words, for every paragraph of more
\* than max_words words: the first chunk cut from it starts at its first
\* word; whenever two successive chunks both hold words of it, the earlier
\* one is a window of exactly max_words consecutive words of the paragraph
\* and the later one starts with exactly the last overlap_words words of the
\* earlier one and then goes on with the next word (so the window advances
\* by max_words - overlap_words); once chunking has returned the last such
\* chunk ends the paragraph with at most max_words of its words.
C11_OverflowSlicesOverlap ==
    overlap_words < max_words =>
        \A i \in DOMAIN paragraphs : LongParagraph(i) =>
            /\ \A n \in DOMAIN chunks :
                  /\ Touches(chunks[n], i) => ContentIsItsWords(chunks[n])
                  /\ (Touches(chunks[n], i) /\ (n = 1 \/ ~Touches(chunks[n - 1], i)))
                        => chunks[n].word_ids[1] = FirstId(i)
                  /\ (n < Len(chunks) /\ Touches(chunks[n], i) /\ Touches(chunks[n + 1], i))
                        => LET a == chunks[n].word_ids
                               b == chunks[n + 1].word_ids
                           IN  /\ Len(a) = max_words
                               /\ Consecutive(a)
                               /\ Range(a) \subseteq ParaWordIds(i)
                               /\ Len(b) > overlap_words
                               /\ SubSeq(b, 1, overlap_words) = LastK(a, overlap_words)
                               /\ b[overlap_words + 1] = a[max_words] + 1
                               /\ b[1] = a[1] + (max_words - overlap_words)
                  /\ (ChunkingDone /\ Touches(chunks[n], i)
                        /\ (n = Len(chunks) \/ ~Touches(chunks[n + 1], i)))
                        => /\ LastId(i) \in Range(chunks[n].word_ids)
                           /\ Cardinality({p \in DOMAIN chunks[n].word_ids :
                                  chunks[n].word_ids[p] \in ParaWordIds(i)}) <= max_words
            /\ ChunkingDone => \E n \in DOMAIN chunks : Touches(chunks[n], i)

\* C11 witness: a five-word paragraph cut with max_words = 2 and
\* overlap_words = 1 into four chunks, each starting one word further.
C11_Witness ==
    /\ ChunkingDone
    /\ max_words = 2
    /\ overlap_words = 1
    /\ Len(paragraphs) = 1
    /\ ParaWordCount(1) = 5
    /\ Len(chunks) = 4
    /\ chunks[2].word_ids = <<2, 3>>
    /\ chunks[4].word_ids = <<4, 5>>

\* the paragraph that holds the word at position id
ParaOf(id) == CHOOSE i \in DOMAIN paragraphs : id \in ParaWordIds(i)

C13_FlushCarriesOverlap ==
    \A n \in 1..(Len(chunks) - 1) :
        chunks[n].origin = "flush" =>
            LET a == chunks[n].word_ids
                b == chunks[n + 1].word_ids
                k == Min(overlap_words, Len(a))
            IN  /\ Len(b) >= k
                /\ SubSeq(b, 1, k) = LastK(a, k)

\* the word positions of the chunks from chunk n on, in chunk_index order,
\* without the leading overlap_words words of each chunk whose predecessor
\* was cut by the slicing loop
RECURSIVE ReconstructFrom(_)
ReconstructFrom(n) ==
    IF n > Len(chunks) THEN <<>>
    ELSE (IF n > 1 /\ chunks[n - 1].origin = "slice"
          THEN DropK(chunks[n].word_ids, Min(overlap_words, Len(chunks[n].word_ids)))
          ELSE chunks[n].word_ids)
         \o ReconstructFrom(n + 1)

\* C14: with 0 <= overlap_words < max_words, when chunking has returned the
\* chunks carry the indices 0, 1, .., n-1 in emission order, each content is
\* its words, and the chunks' words, taken in that order without the leading
\* overlap_words words of every chunk that continues a slice, are exactly
\* the words of the paragraphs in document order.
C14_ChunksReconstructDocument ==
    (ChunkingDone /\ overlap_words < max_words) =>
        /\ \A n \in DOMAIN chunks :
              /\ chunks[n].chunk_index = n - 1
              /\ ContentIsItsWords(chunks[n])
        /\ ReconstructFrom(1) = PyRange1(Len(DocWords))

\* C14 witness: a sliced paragraph followed by a paragraph that does not fit,
\* chunked with an overlap.
C14_Witness ==
    /\ ChunkingDone
    /\ max_words = 2
    /\ overlap_words = 1
    /\ Len(paragraphs) = 2
    /\ ParaWordCount(1) = 3
    /\ ParaWordCount(2) = 2
    /\ Len(chunks) = 3
    /\ chunks[1].origin = "slice"
    /\ chunks[2].origin = "flush"

\* the lines of the normalised text
NormLines == SplitLines(normalize_text(input_text))

\* every paragraph is a single line: no two successive lines both hold text
SingleLineParagraphs ==
    \A l \in 1..(Len(NormLines) - 1) :
        Strip(NormLines[l]) = <<>> \/ Strip(NormLines[l + 1]) = <<>>

\* C15 as stated: a text of single-line paragraphs chunked with max_words at
\* least its word count gives exactly one chunk, holding all its words in
\* order.
C15_SingleChunkAlways ==
    (ChunkingDone /\ SingleLineParagraphs /\ max_words >= Len(DocWords)) =>
        /\ Len(chunks) = 1
        /\ chunks[1].content = Join(DocWords, <<" ">>)

\* C15 amended: a text of single-line paragraphs that holds at least one
\* word, chunked with max_words at least its word count, gives exactly one
\* chunk whose content is all the words of all paragraphs in order, one blank
\* between them; a text without any word gives no chunk.
C15_SingleChunkIfAnyWord ==
    (ChunkingDone /\ SingleLineParagraphs /\ max_words >= Len(DocWords)) =>
        IF Len(DocWords) >= 1
        THEN /\ Len(chunks) = 1
             /\ chunks[1].content = Join(DocWords, <<" ">>)
             /\ chunks[1].chunk_index = 0
        ELSE chunks = <<>>

\* C15 witness: two one-word paragraphs chunked with max_words = 2 into one
\* chunk.
C15_Witness ==
    /\ ChunkingDone
    /\ SingleLineParagraphs
    /\ Len(paragraphs) = 2
    /\ Len(DocWords) = 2
    /\ max_words = 2
    /\ Len(chunks) = 1

WhitespaceOnly(s) == \A p \in DOMAIN s : IsSpace(s[p])

\* C16: a text that is empty or made of whitespace and blank lines only gives
\* no chunk, and no chunk ever emitted has empty or whitespace-only content.
C16_NoEmptyChunks ==
    /\ (ChunkingDone /\ WhitespaceOnly(input_text)) => chunks = <<>>
    /\ \A n \in DOMAIN chunks : ~WhitespaceOnly(chunks[n].content)

\* C16 witness: a text of blanks and line ends has been chunked.
C16_Witness ==
    /\ ChunkingDone
    /\ Len(input_text) >= 3
    /\ WhitespaceOnly(input_text)
    /\ \E p \in DOMAIN input_text : input_text[p] = " "
    /\ chunks = <<>>

-----------------------------------------------------------------------------
(* More claims about split_text_into_chunks (checked under SpecChunk)      *)

\* C25: split_text_into_chunks terminates for every max_words >= 1 and
\* overlap_words >= 0: every pass of the overflow loop leaves fewer words in
\* current_words than it found, so the loop exhausts the paragraph after
\* finitely many slices.
C25_OverflowLoopShrinks ==
    [][cpc = "slicing" => Len(current_words') < Len(current_words)]_vars

\* C26: with 0 <= overlap_words < max_words every emitted chunk holds at
\* least one and at most max_words words, its content being those words;
\* also a chunk that starts with the remainder of an over-long paragraph and
\* then takes in following paragraphs.
C26_ChunkWordCountBounded ==
    overlap_words < max_words =>
        \A n \in DOMAIN chunks :
            /\ Len(chunks[n].word_ids) >= 1
            /\ Len(chunks[n].word_ids) <= max_words
            /\ Len(SplitWords(chunks[n].content)) = Len(chunks[n].word_ids)

\* C26 witness: with max_words = 2 and no overlap, the last word of a
\* three-word paragraph and the one word of the next paragraph make one
\* chunk.
C26_Witness ==
    /\ ChunkingDone
    /\ max_words = 2
    /\ overlap_words = 0
    /\ Len(paragraphs) = 2
    /\ ParaWordCount(1) = 3
    /\ ParaWordCount(2) = 1
    /\ Len(chunks) = 2
    /\ chunks[1].origin = "slice"
    /\ chunks[2].word_ids = <<3, 4>>
    /\ chunks[2].origin = "flush"

\* start offset of paragraph i in the reconstructed text: the lengths of the
\* earlier paragraphs, each plus one
RECURSIVE ParaStart(_)
ParaStart(i) == IF i <= 1 THEN 0 ELSE ParaStart(i - 1) + Len(paragraphs[i - 1]) + 1

ParaEnd(i) == ParaStart(i) + Len(paragraphs[i])

\* C27: every emitted chunk has 0 <= start_char <= end_char, start_char
\* being the start offset of the paragraph of its first word and end_char
\* the end offset of the paragraph of its last word; a slice cut from an
\* over-long paragraph carries that paragraph's start and end offsets.
C27_ChunkOffsets ==
    \A n \in DOMAIN chunks :
        LET c == chunks[n]
            first == ParaOf(c.word_ids[1])
            last == ParaOf(c.word_ids[Len(c.word_ids)])
        IN  /\ c.word_ids # <<>>
            /\ 0 <= c.start_char
            /\ c.start_char <= c.end_char
            /\ c.start_char = ParaStart(first)
            /\ c.end_char = ParaEnd(last)
            /\ c.origin = "slice" => first = last /\ LongParagraph(first)

\* C27 witness: the second paragraph is over-long and its slice carries its
\* offsets, which start after the first paragraph and its separator.
C27_Witness ==
    /\ ChunkingDone
    /\ Len(paragraphs) = 2
    /\ ParaWordCount(1) = 1
    /\ LongParagraph(2)
    /\ \E n \in DOMAIN chunks :
          /\ chunks[n].origin = "slice"
          /\ chunks[n].start_char = Len(paragraphs[1]) + 1
          /\ chunks[n].end_char = Len(paragraphs[1]) + 1 + Len(paragraphs[2])

-----------------------------------------------------------------------------
(* Claims about _parse_id_list (checked under SpecRerank)                  *)

\* the first occurrences of the entries of items that are integers in 1..n,
\* in order
RECURSIVE FirstIntegerIds(_, _, _, _)
FirstIntegerIds(items, n, i, acc) ==
    IF i > Len(items) THEN acc
    ELSE IF IsIdEntry(items[i], n) /\ items[i].v \notin Range(acc)
         THEN FirstIntegerIds(items, n, i + 1, Append(acc, items[i].v))
         ELSE FirstIntegerIds(items, n, i + 1, acc)

\* C24: when the rerank response is a JSON list with at least one integer in
\* 1..N, the id order is exactly the first occurrences of its integers in
\* 1..N, in response order, whatever other entries (out-of-range integers,
\* strings, floats, booleans, null, nested values) and repeats the list
\* holds; so the returned candidates are those named by these ids, then the
\* others in input order.
C24_OnlyIntegersInRangeCount ==
    (/\ RerankReturned
     /\ rr_outcome.content.form = "json"
     /\ rr_outcome.content.isList
     /\ \E i \in DOMAIN rr_outcome.content.items :
           IsIdEntry(rr_outcome.content.items[i], Len(rr_candidates))) =>
        LET n == Len(rr_candidates)
            ids == FirstIntegerIds(rr_outcome.content.items, n, 1, <<>>)
            named == [i \in DOMAIN ids |-> rr_candidates[ids[i]]]
            unnamed == SelectSeq(rr_candidates, LAMBDA c : c.id \notin Range(ids))
        IN  /\ parse_id_list(rr_outcome.content, n) = ids
            /\ rr_result = named \o unnamed

-----------------------------------------------------------------------------
(* Claims about search_development (checked under Spec)                    *)

\* the stored chunk a row was read from (chunk k has chunk_index k - 1)
ChunkOfRow(r) == r.chunk_index + 1

-----------------------------------------------------------------------------
(* Claims about the assembled context and the cited chunks (under Spec)    *)

\* the final ordering of the candidates: the reranked list, or the rows as
\* retrieved in the pipelines without reranking
FinalOrdering == IF UsesRerank(variant) THEN reranked ELSE RowsAsChunks(rows)

\* context block b is the block of candidate c
BlockOf(b, c) ==
    /\ b.rank = c.rank
    /\ b.file_name = c.file_name
    /\ b.chunk_index = c.chunk_index
    /\ b.score = c.score

\* cited chunk x is candidate c
CitationOf(x, c) ==
    /\ x.id = c.id
    /\ x.orig_rank = c.rank
    /\ x.file_name = c.file_name
    /\ x.chunk_index = c.chunk_index

\* C18: when a request is answered, the context holds exactly one block for
\* each of the first min(top_k_final, N) candidates of the final ordering, in
\* that order, and the chunks returned with the answer are exactly those
\* candidates in the same order.
C18_CitationsAreTheContext ==
    pc = "DONE" =>
        LET k == Min(req.top_k_final, Len(FinalOrdering))
        IN  /\ Len(context_str) = k
            /\ Len(response.context) = k
            /\ Len(selected) = k
            /\ \A i \in 1..k :
                  /\ selected[i] = FinalOrdering[i]
                  /\ BlockOf(context_str[i], FinalOrdering[i])
                  /\ CitationOf(response.context[i], FinalOrdering[i])

\* C18 witness: three candidates reranked with the third first, two of them
\* selected, put in the context and returned with the answer.
C18_Witness ==
    /\ pc = "DONE"
    /\ variant = "api_rerank"
    /\ Len(reranked) = 3
    /\ reranked[1].id = 3
    /\ req.top_k_final = 2
    /\ Len(response.context) = 2
    /\ response.context[1].id = 3

-----------------------------------------------------------------------------
(* The reranked path against the plain path of file_search_qa (under Spec) *)

\* the request went down the reranked path of file_search_qa, the rerank call
\* was answered and the candidates came back in their input order, as the
\* identity fallback returns them
IdentityFallbackAnswered ==
    /\ variant = "api_rerank"
    /\ pc = "DONE"
    /\ req.top_n_candidates >= req.top_k_final
    /\ reranked = candidates

\* what the plain path of file_search_qa builds on the same store with the
\* same top_k_final, for rows rs it retrieves: its context string and its
\* cited chunks
SameAsPlainPath(rs) ==
    /\ StageAfterRetrieval("api_plain", rs) = "ASSEMBLING"
    /\ context_str = build_context_from_rows(rs, MaxCharsPerChunk)
    /\ response.context = Citations("api_plain", RowsAsChunks(rs))

\* C28 as stated: whenever the reranker falls back to the identity order and
\* top_n_candidates >= top_k_final, the reranked path of file_search_qa ends
\* with the context string and the cited chunks that the plain path builds
\* over the same store.
C28_FallbackEqualsPlainAlways ==
    IdentityFallbackAnswered =>
        \E rs \in search_development(store, req.top_k_final) :
            /\ rs = Take(rows, req.top_k_final)
            /\ SameAsPlainPath(rs)

\* C28 amended: the same for 1 <= top_k_final <= top_n_candidates; with
\* top_k_final = 0 the reranked path still asks the model, with an empty
\* context, while the plain path retrieves nothing and returns the fixed
\* no-context answer.
C28_FallbackEqualsPlainIfTopKPositive ==
    IdentityFallbackAnswered =>
        IF req.top_k_final >= 1
        THEN \E rs \in search_development(store, req.top_k_final) :
                /\ rs = Take(rows, req.top_k_final)
                /\ SameAsPlainPath(rs)
        ELSE /\ context_str = <<>>
             /\ response.context = <<>>
             /\ response.answer # NoContextAnswer("api_plain")
             /\ StageAfterRetrieval("api_plain", Take(rows, req.top_k_final)) = "NO_CONTEXT"

\* C28 witness: three candidates, the reranker's reply is prose, two chunks
\* are selected and the request is answered.
C28_Witness ==
    /\ IdentityFallbackAnswered
    /\ Len(candidates) = 3
    /\ req.top_k_final = 2
    /\ calls[1].purpose = "rerank"
    /\ calls[1].form = "prose"
    /\ Len(response.context) = 2

-----------------------------------------------------------------------------
(* Claims about context assembly (checked under SpecContext)               *)

ContextBuilt == ctx_pc \in {"rows", "reranked"}

\* c[i..j] is c without its leading and trailing whitespace
StrippedAt(c, i, j) ==
    /\ \A p \in 1..(i - 1) : IsSpace(c[p])
    /\ \A p \in (j + 1)..Len(c) : IsSpace(c[p])
    /\ (i <= j => ~IsSpace(c[i]) /\ ~IsSpace(c[j]))
    /\ j >= i - 1

\* c[i..j] with every line end turned into one blank
NewlineFree(c, i, j) ==
    [p \in 1..(j - i + 1) |-> IF c[i + p - 1] = "\n" THEN " " ELSE c[i + p - 1]]

\* C17: the text of the one block a context builder makes for a candidate is
\* the stripped content with every line end turned into a blank when that has
\* at most max_chars_per_chunk characters, and otherwise its first
\* max_chars_per_chunk characters followed by "..."; so it never has more
\* than max_chars_per_chunk + 3 characters.
C17_SnippetTruncation ==
    ContextBuilt =>
        /\ Len(ctx_block) = 1
        /\ LET t == ctx_block[1].text
               m == ctx_max_chars
               c == ctx_content
           IN  /\ Len(t) <= m + 3
               /\ \E i \in 1..(Len(c) + 1) : \E j \in 0..Len(c) :
                     /\ StrippedAt(c, i, j)
                     /\ LET u == NewlineFree(c, i, j)
                        IN  /\ Len(u) <= m => t = u
                            /\ Len(u) > m =>
                                  /\ Len(t) = m + 3
                                  /\ SubSeq(t, 1, m) = SubSeq(u, 1, m)
                                  /\ SubSeq(t, m + 1, m + 3) = <<".", ".", ".">>

\* C17 witness: a content whose stripped text is one character longer than
\* max_chars_per_chunk and holds a line end has been cut and marked.
C17_Witness ==
    /\ ctx_pc = "reranked"
    /\ ctx_content = <<" ", "x", "\n", "x">>
    /\ ctx_max_chars = 2
    /\ ctx_block[1].text = <<"x", " ", ".", ".", ".">>

-----------------------------------------------------------------------------
(* Claims about embed_chunks_for_file (checked under SpecEmbed)            *)

\* the stored embedding rows of the chunks of the document
DocEmbeddings(table) ==
    {r \in table : \E i \in DOMAIN emb_rows : r.chunk_id = emb_rows[i].chunk_id}

-----------------------------------------------------------------------------
(* SpecIngest: one run of ingest_file_to_development, with another         *)
(* database session reading the document's chunks at any moment            *)

\* most chunks of the document, stored before or produced by the run
MaxIngestChunks == 2

\* doc_id of the document of the ingested file, and of another document
IngDoc == 1
IngOtherDoc == 2

ChunkRow(doc, i, content) == [doc_id |-> doc, chunk_index |-> i - 1, content |-> content]

\* the chunks split_text_into_chunks produced for the file, as rows
NewChunks(n) == {ChunkRow(IngDoc, i, "new") : i \in 1..n}

\* the rows of int.chunks_development of the document
DocChunks(t) == {c \in t.chunks : c.doc_id = IngDoc}

\* the tables before the run: the other document is there; the document of
\* the file is absent, or present with the chunks of an earlier ingest
TablesBefore ==
    LET other == [documents |-> {IngOtherDoc},
                  texts |-> {[doc_id |-> IngOtherDoc, text |-> "other"]},
                  chunks |-> {ChunkRow(IngOtherDoc, 1, "other")}]
    IN  {other} \cup
        {[documents |-> other.documents \cup {IngDoc},
          texts |-> other.texts \cup {[doc_id |-> IngDoc, text |-> "old"]},
          chunks |-> other.chunks \cup {ChunkRow(IngDoc, i, "old") : i \in 1..n}] :
            n \in 0..MaxIngestChunks}

\* SELECT doc_id ... ; INSERT INTO raw.documents_development if there is none
get_or_create_document_development(t) ==
    [t EXCEPT !.documents = @ \cup {IngDoc}]

\* INSERT INTO int.document_text_development ... ON CONFLICT DO UPDATE
upsert_document_text_development(t) ==
    [t EXCEPT !.texts = {x \in @ : x.doc_id # IngDoc}
                            \cup {[doc_id |-> IngDoc, text |-> "new"]}]

\* replace_chunks_development, first statement:
\* DELETE FROM int.chunks_development WHERE doc_id = %s
replace_chunks_delete(t) ==
    [t EXCEPT !.chunks = {c \in @ : c.doc_id # IngDoc}]

\* replace_chunks_development, loop body: INSERT of the i-th chunk
replace_chunks_insert(t, i) ==
    [t EXCEPT !.chunks = @ \cup {ChunkRow(IngDoc, i, "new")}]

VisibleToReader_dirty(committed, working) == working

\* what a statement of another session reads while the transaction of the
\* run is open: the connection is not in autocommit mode, so the rows the
\* run wrote stay its own until `with conn:` commits
VisibleToReader(committed, working) == committed

InitIngest ==
    /\ ing_pc = "start"
    /\ ing_file \in [is_file : BOOLEAN, readable : BOOLEAN]
    /\ ing_new \in 0..MaxIngestChunks
    /\ ing_next = 0
    /\ ing_committed \in TablesBefore
    /\ ing_working = ing_committed
    /\ ing_before = ing_committed
    /\ ing_seen = DocChunks(ing_committed)
    /\ IdleRerank
    /\ IdlePipeline
    /\ IdleChunk
    /\ IdleContext
    /\ IdleEmbed
    /\ IdleLibrary
    /\ IdleChat
    /\ IdleQa

ingOthers == <<rrVars, pipeVars, chunkVars, ctxVars, embVars, libVars, chatVars, qaVars>>

\* is_file(), read_bytes(), extract_text_from_file and split_text_into_chunks:
\* all before the connection is opened
IngestPrepare ==
    /\ ing_pc = "start"
    /\ ing_pc' = IF ing_file.is_file /\ ing_file.readable THEN "open" ELSE "failed"
    /\ UNCHANGED <<ing_file, ing_new, ing_next, ing_committed, ing_working,
                   ing_before, ing_seen, ingOthers>>

\* get_or_create_document_development and upsert_document_text_development;
\* a statement the database refuses raises out of the `with conn:` block
IngestDocument ==
    /\ ing_pc = "open"
    /\ \E accepted \in BOOLEAN :
         IF accepted
         THEN /\ ing_working' = upsert_document_text_development(
                                   get_or_create_document_development(ing_working))
              /\ ing_pc' = "deleting"
              /\ UNCHANGED ing_committed
         ELSE /\ ing_pc' = "failed"
              /\ ing_committed' = TransactionEnd(TRUE, ing_committed, ing_working)
              /\ UNCHANGED ing_working
    /\ UNCHANGED <<ing_file, ing_new, ing_next, ing_before, ing_seen, ingOthers>>

\* replace_chunks_development: the DELETE
IngestDelete ==
    /\ ing_pc = "deleting"
    /\ \E accepted \in BOOLEAN :
         IF accepted
         THEN /\ ing_working' = replace_chunks_delete(ing_working)
              /\ ing_pc' = "inserting"
              /\ ing_next' = 1
              /\ UNCHANGED ing_committed
         ELSE /\ ing_pc' = "failed"
              /\ ing_committed' = TransactionEnd(TRUE, ing_committed, ing_working)
              /\ UNCHANGED <<ing_working, ing_next>>
    /\ UNCHANGED <<ing_file, ing_new, ing_before, ing_seen, ingOthers>>

\* replace_chunks_development: one turn of `for ch in chunks`
IngestInsert ==
    /\ ing_pc = "inserting"
    /\ ing_next <= ing_new
    /\ \E accepted \in BOOLEAN :
         IF accepted
         THEN /\ ing_working' = replace_chunks_insert(ing_working, ing_next)
              /\ ing_next' = ing_next + 1
              /\ UNCHANGED <<ing_pc, ing_committed>>
         ELSE /\ ing_pc' = "failed"
              /\ ing_committed' = TransactionEnd(TRUE, ing_committed, ing_working)
              /\ UNCHANGED <<ing_working, ing_next>>
    /\ UNCHANGED <<ing_file, ing_new, ing_before, ing_seen, ingOthers>>

\* the loop is over and the `with conn:` block ends: commit
IngestCommit ==
    /\ ing_pc = "inserting"
    /\ ing_next > ing_new
    /\ ing_committed' = TransactionEnd(FALSE, ing_committed, ing_working)
    /\ ing_pc' = "done"
    /\ UNCHANGED <<ing_file, ing_new, ing_next, ing_working, ing_before, ing_seen,
                   ingOthers>>

\* another session selects the chunks of the document
ReaderReads ==
    /\ ing_pc # "idle"
    /\ ing_seen' = DocChunks(VisibleToReader(ing_committed, ing_working))
    /\ UNCHANGED <<ing_pc, ing_file, ing_new, ing_next, ing_committed, ing_working,
                   ing_before, ingOthers>>

NextIngest ==
    \/ IngestPrepare
    \/ IngestDocument
    \/ IngestDelete
    \/ IngestInsert
    \/ IngestCommit
    \/ ReaderReads

SpecIngest == InitIngest /\ [][NextIngest]_vars

-----------------------------------------------------------------------------
(* Claims about ingest_file_to_development (checked under SpecIngest)      *)

\* C21: re-ingesting a document replaces its chunks all-or-nothing.  After a
\* run that succeeded the stored chunks of the document are exactly the new
\* set; after a run that failed, and at every moment before the commit, the
\* stored tables are exactly what they were; another session reading at any
\* moment sees the whole prior set or, once the run has committed, the whole
\* new set, never a mixture or a part; the rows of other documents stay.
C21_ReingestAllOrNothing ==
    ing_pc # "idle" =>
        /\ ing_pc = "done" =>
              /\ DocChunks(ing_committed) = NewChunks(ing_new)
              /\ ing_committed.chunks \ DocChunks(ing_committed)
                     = ing_before.chunks \ DocChunks(ing_before)
        /\ ing_pc # "done" => ing_committed = ing_before
        /\ ing_seen \in {DocChunks(ing_before), NewChunks(ing_new)}
        /\ ing_seen # DocChunks(ing_before) => ing_pc = "done"

\* a re-ingest that failed after it had deleted two old chunks and written
\* the first of two new ones, and a reader that looked in between
C21_Witness ==
    /\ ing_pc = "failed"
    /\ ing_new = 2
    /\ ing_next = 2
    /\ Cardinality(DocChunks(ing_before)) = 2
    /\ DocChunks(ing_working) = NewChunks(1)
    /\ ing_seen = DocChunks(ing_before)

-----------------------------------------------------------------------------
(* SpecLibrary: requests to POST /api/library/ingest, served by threads    *)
(* that take their steps in any order                                      *)

\* number of requests
MaxRequests == 2

\* the files of the library directory that are asked for
LibPaths == {"Library/a.txt", "Library/b.pdf"}

LibSteps == {"ingest_file_to_development", "embed_development_chunks"}

\* exit codes of the subprocess: success and failure
ReturnCodes == {0, 1}

run_file_searcher_module_unchecked(returncode) == "return"

\* _run_file_searcher_module: `if result.returncode != 0: raise HTTPException`
run_file_searcher_module(returncode) ==
    IF returncode # 0 THEN "raise" ELSE "return"

\* INSERT INTO library.ingested_files ... ON CONFLICT (file_path) DO NOTHING
record_ingested(table, path) == table \cup {path}

InitLibrary ==
    /\ lib_req \in [1..MaxRequests -> LibPaths]
    /\ lib_pc = [r \in 1..MaxRequests |-> "new"]
    /\ lib_already = [r \in 1..MaxRequests |-> FALSE]
    /\ lib_ran = [r \in 1..MaxRequests |-> {}]
    /\ lib_status = [r \in 1..MaxRequests |-> ""]
    /\ lib_table \in SUBSET LibPaths
    /\ lib_initial = lib_table
    /\ lib_writer = [p \in LibPaths |-> 0]
    /\ IdleRerank
    /\ IdlePipeline
    /\ IdleChunk
    /\ IdleContext
    /\ IdleEmbed
    /\ IdleIngest
    /\ IdleChat
    /\ IdleQa

libOthers == <<rrVars, pipeVars, chunkVars, ctxVars, embVars, ingVars, chatVars, qaVars>>

\* ensure_ingested_files_table, the checks of the path (400 / 404) and the
\* SELECT that sets `already_ingested`
LibCheck(r) ==
    /\ lib_pc[r] = "new"
    /\ \E acceptable \in BOOLEAN :
         IF acceptable
         THEN /\ lib_already' = [lib_already EXCEPT ![r] = lib_req[r] \in lib_table]
              /\ lib_pc' = [lib_pc EXCEPT ![r] = "checked"]
         ELSE /\ lib_pc' = [lib_pc EXCEPT ![r] = "error"]
              /\ UNCHANGED lib_already
    /\ UNCHANGED <<lib_req, lib_ran, lib_status, lib_table, lib_initial, lib_writer,
                   libOthers>>

\* `if already_ingested: return LibraryFileModel(..., status="ingested")`
LibReturnKnown(r) ==
    /\ lib_pc[r] = "checked"
    /\ lib_already[r]
    /\ lib_pc' = [lib_pc EXCEPT ![r] = "done"]
    /\ lib_status' = [lib_status EXCEPT ![r] = "ingested"]
    /\ UNCHANGED <<lib_req, lib_already, lib_ran, lib_table, lib_initial, lib_writer,
                   libOthers>>

\* one step of the DAG: the module runs as a subprocess and exits
LibRunStep(r, at, step, then) ==
    /\ lib_pc[r] = at
    /\ \E returncode \in ReturnCodes :
         IF run_file_searcher_module(returncode) = "return"
         THEN /\ lib_pc' = [lib_pc EXCEPT ![r] = then]
              /\ lib_ran' = [lib_ran EXCEPT ![r] =
                                IF returncode = 0 THEN @ \cup {step} ELSE @]
         ELSE /\ lib_pc' = [lib_pc EXCEPT ![r] = "error"]
              /\ UNCHANGED lib_ran
    /\ UNCHANGED <<lib_req, lib_already, lib_status, lib_table, lib_initial,
                   lib_writer, libOthers>>

\* 1) _run_file_searcher_module("ingest_file_to_development", [file_path_str])
LibIngest(r) ==
    /\ ~lib_already[r]
    /\ LibRunStep(r, "checked", "ingest_file_to_development", "ingested")

\* 2) _run_file_searcher_module("embed_development_chunks", [file_path_str])
LibEmbed(r) ==
    /\ lib_pc[r] = "ingested"
    /\ LibRunStep(r, "ingested", "embed_development_chunks", "embedded")

\* 4) the INSERT into library.ingested_files, the commit and the return;
\* the database may refuse the INSERT, which raises
LibRecord(r) ==
    /\ lib_pc[r] = "embedded"
    /\ \E accepted \in BOOLEAN :
         IF accepted
         THEN /\ lib_table' = record_ingested(lib_table, lib_req[r])
              /\ lib_writer' = IF lib_req[r] \in lib_table THEN lib_writer
                               ELSE [lib_writer EXCEPT ![lib_req[r]] = r]
              /\ lib_pc' = [lib_pc EXCEPT ![r] = "done"]
              /\ lib_status' = [lib_status EXCEPT ![r] = "ingested"]
         ELSE /\ lib_pc' = [lib_pc EXCEPT ![r] = "error"]
              /\ UNCHANGED <<lib_table, lib_writer, lib_status>>
    /\ UNCHANGED <<lib_req, lib_already, lib_ran, lib_initial, libOthers>>

NextLibrary ==
    \E r \in 1..MaxRequests :
        \/ LibCheck(r)
        \/ LibReturnKnown(r)
        \/ LibIngest(r)
        \/ LibEmbed(r)
        \/ LibRecord(r)

SpecLibrary == InitLibrary /\ [][NextLibrary]_vars

-----------------------------------------------------------------------------
(* Claims about /api/library/ingest (checked under SpecLibrary)            *)

\* the requests for path p that ran both steps with exit code 0
RanBoth(p) == {r \in DOMAIN lib_req : lib_req[r] = p /\ lib_ran[r] = LibSteps}

\* C23: the endpoint does not re-ingest a file: for every path at most one
\* request runs the ingest and the embed step successfully, and a request
\* that finds the path recorded runs no step and returns status "ingested".
C23_NoReingest ==
    /\ \A p \in LibPaths : Cardinality(RanBoth(p)) <= 1
    /\ \A r \in DOMAIN lib_req :
          lib_already[r] =>
              /\ lib_ran[r] = {}
              /\ lib_pc[r] = "done" => lib_status[r] = "ingested"

\* C29: a path is recorded, and reported as "ingested", only after both
\* steps of a request for it exited successfully; a request with a failed
\* step returns an error and records nothing, so that the path stays
\* unrecorded and a later request, finding it so, runs the steps again.
C29_RecordedOnlyAfterBothSteps ==
    /\ \A p \in lib_table \ lib_initial :
          /\ lib_writer[p] \in RanBoth(p)
          /\ lib_pc[lib_writer[p]] = "done"
    /\ \A r \in DOMAIN lib_req :
          /\ lib_status[r] = "ingested" =>
                /\ lib_req[r] \in lib_table
                /\ lib_already[r] \/ lib_ran[r] = LibSteps
          /\ lib_pc[r] = "error" =>
                /\ lib_status[r] = ""
                /\ \A p \in LibPaths : lib_writer[p] # r
          /\ lib_ran[r] # LibSteps => \A p \in LibPaths : lib_writer[p] # r
          /\ lib_already[r] => lib_req[r] \in lib_table
          /\ (lib_pc[r] \in {"ingested", "embedded", "done"} /\ ~lib_already[r]) =>
                "ingest_file_to_development" \in lib_ran[r]
          /\ (lib_pc[r] \in {"embedded", "done"} /\ ~lib_already[r]) =>
                lib_ran[r] = LibSteps

\* the embed step of the first request failed, the path stayed unrecorded,
\* and the second request ran both steps again and recorded it
C29_Witness ==
    /\ lib_req[1] = lib_req[2]
    /\ lib_initial = {}
    /\ lib_pc[1] = "error"
    /\ lib_ran[1] = {"ingest_file_to_development"}
    /\ lib_pc[2] = "done"
    /\ lib_ran[2] = LibSteps
    /\ lib_writer[lib_req[2]] = 2
    /\ lib_table = {lib_req[2]}

-----------------------------------------------------------------------------
(* SpecChat: requests to POST /api/chat, each served to its end before     *)
(* the next begins                                                         *)

\* number of requests
MaxChatRequests == 3

\* the session ids in use; uuid4 yields one of them that is not stored yet
ChatSessionIds == {"s1", "s2"}

\* session_id = None
NoSession == "none"

\* what run_rag_chat does: it raises, or returns the fixed answer of an
\* empty retrieval or the answer of the model
RagOutcomes ==
    {[raised |-> TRUE, answer |-> ""],
     [raised |-> FALSE, answer |-> NoContextAnswer("rag_chat")],
     [raised |-> FALSE, answer |-> "model answer"]}

\* save_message: INSERT INTO chat_history.messages ... and commit; `request`
\* is history, the number of the request that wrote the row
save_message(messages, session_id, role, content, request) ==
    Append(messages, [session_id |-> session_id, role |-> role,
                      content |-> content, request |-> request])

\* get_session_messages: ... WHERE session_id = %s ORDER BY created_at, id
get_session_messages(messages, session_id) ==
    SelectSeq(messages, LAMBDA m : m.session_id = session_id)

InitChat ==
    /\ chat_pc = "between"
    /\ chat_req = [number |-> 0, session_id |-> NoSession, result |-> ""]
    /\ chat_session = NoSession
    /\ chat_answer = ""
    /\ chat_sessions = {}
    /\ chat_messages = <<>>
    /\ chat_started = <<>>
    /\ chat_count = 0
    /\ IdleRerank
    /\ IdlePipeline
    /\ IdleChunk
    /\ IdleContext
    /\ IdleEmbed
    /\ IdleIngest
    /\ IdleLibrary
    /\ IdleQa

chatOthers == <<rrVars, pipeVars, chunkVars, ctxVars, embVars, ingVars, libVars, qaVars>>

\* the request ends: with its response, or with the error that left chat()
ChatEnd(result) ==
    /\ chat_pc' = "between"
    /\ chat_req' = [chat_req EXCEPT !.result = result]

\* a request arrives, with a session id or without one
ChatBegin ==
    /\ chat_pc = "between"
    /\ chat_count < MaxChatRequests
    /\ \E sid \in ChatSessionIds \cup {NoSession} :
         /\ sid = NoSession => ChatSessionIds \ chat_sessions # {}
         /\ chat_req' = [number |-> chat_count + 1, session_id |-> sid,
                         result |-> "running"]
    /\ chat_count' = chat_count + 1
    /\ chat_pc' = "session"
    /\ chat_session' = NoSession
    /\ chat_answer' = ""
    /\ chat_started' = chat_messages
    /\ UNCHANGED <<chat_sessions, chat_messages, chatOthers>>

\* ensure_session: a new id and its row, or the row of the given id unless
\* it is there; the database may refuse, which raises
ChatEnsureSession ==
    /\ chat_pc = "session"
    /\ \E accepted \in BOOLEAN :
         IF accepted
         THEN /\ \E id \in ChatSessionIds :
                   /\ IF chat_req.session_id = NoSession
                      THEN id \notin chat_sessions
                      ELSE id = chat_req.session_id
                   /\ chat_session' = id
                   /\ chat_sessions' = chat_sessions \cup {id}
              /\ chat_pc' = "rag"
              /\ UNCHANGED chat_req
         ELSE /\ ChatEnd("session_failed")
              /\ UNCHANGED <<chat_session, chat_sessions>>
    /\ UNCHANGED <<chat_answer, chat_messages, chat_started, chat_count, chatOthers>>

\* answer, chunks = run_rag_chat(req.question, top_k=req.top_k)
ChatRag ==
    /\ chat_pc = "rag"
    /\ \E out \in RagOutcomes :
         IF out.raised
         THEN /\ ChatEnd("rag_failed")
              /\ UNCHANGED chat_answer
         ELSE /\ chat_answer' = out.answer
              /\ chat_pc' = "user"
              /\ UNCHANGED chat_req
    /\ UNCHANGED <<chat_session, chat_sessions, chat_messages, chat_started,
                   chat_count, chatOthers>>

\* save_message(session_id, "user", req.question)
ChatSaveUser ==
    /\ chat_pc = "user"
    /\ \E accepted \in BOOLEAN :
         IF accepted
         THEN /\ chat_messages' = save_message(chat_messages, chat_session, "user",
                                               "question", chat_req.number)
              /\ chat_pc' = "assistant"
              /\ UNCHANGED chat_req
         ELSE /\ ChatEnd("user_failed")
              /\ UNCHANGED chat_messages
    /\ UNCHANGED <<chat_session, chat_answer, chat_sessions, chat_started,
                   chat_count, chatOthers>>

\* save_message(session_id, "assistant", answer) and the return
ChatSaveAssistant ==
    /\ chat_pc = "assistant"
    /\ \E accepted \in BOOLEAN :
         IF accepted
         THEN /\ chat_messages' = save_message(chat_messages, chat_session,
                                               "assistant", chat_answer,
                                               chat_req.number)
              /\ ChatEnd("ok")
         ELSE /\ ChatEnd("assistant_failed")
              /\ UNCHANGED chat_messages
    /\ UNCHANGED <<chat_session, chat_answer, chat_sessions, chat_started,
                   chat_count, chatOthers>>

NextChat ==
    \/ ChatBegin
    \/ ChatEnsureSession
    \/ ChatRag
    \/ ChatSaveUser
    \/ ChatSaveAssistant

SpecChat == InitChat /\ [][NextChat]_vars

-----------------------------------------------------------------------------
(* Claims about /api/chat (checked under SpecChat)                         *)

\* C30: after any sequence of requests served one after the other, in every
\* session each stored user message is immediately followed by the
\* assistant answer of the same request; nothing is stored before
\* run_rag_chat has returned, and a request whose ensure_session or
\* run_rag_chat raised has stored no message.
C30_UserFollowedByAnswer ==
    /\ chat_pc = "between" =>
          \A s \in ChatSessionIds :
              LET ms == get_session_messages(chat_messages, s)
              IN  \A i \in DOMAIN ms :
                     ms[i].role = "user" =>
                         /\ i < Len(ms)
                         /\ ms[i + 1].role = "assistant"
                         /\ ms[i + 1].request = ms[i].request
    /\ chat_pc \in {"session", "rag", "user"} => chat_messages = chat_started
    /\ chat_req.result \in {"session_failed", "rag_failed"} =>
          chat_messages = chat_started

-----------------------------------------------------------------------------
(* SpecQa: two requests to POST /api/file-search/qa, served by two threads *)
(* that take their steps in any order, over a store nobody changes         *)

\* largest number of chunks in the store the two requests search
MaxQaStore == 2

\* the worker threads, one request each
QaThreads == {"t1", "t2"}

\* the request bodies: with or without reranking, top_k_final from 1 up;
\* top_n_candidates covers the store, as its default of 15 does
QaRequests ==
    [use_rerank : BOOLEAN, top_k_final : 1..MaxQaStore,
     top_n_candidates : {MaxQaStore}]

QaVariant(rq) == IF rq.use_rerank THEN "api_rerank" ELSE "api_plain"

\* replies to the rerank call of a request over n candidates: no reply,
\* prose, or a JSON list naming at most one candidate
QaRerankOutcomes(n) ==
    {Unreachable, Reply(TextProse), Reply(TextJsonList(<<>>))}
        \cup {Reply(TextJsonList(<<[t |-> "int", v |-> i]>>)) : i \in 1..n}

\* replies to the answer call
QaAnswerOutcomes == {Unreachable, Reply(TextProse)}

\* the locals of file_search_qa when the call begins; got_rerank and
\* got_answer are history: what the generation service replied to this call
QaLocals(rq) ==
    [pc |-> "RETRIEVING", req |-> rq, rows |-> <<>>, candidates |-> <<>>,
     reranked |-> <<>>, selected |-> <<>>, context_str |-> <<>>,
     response |-> NoResponse, got_rerank |-> NoOutcome, got_answer |-> NoOutcome]

RequestLocal_shared(frames, t) == frames[CHOOSE x \in DOMAIN frames : TRUE]

\* the values a thread reads back between its steps: those of its own call
\* of file_search_qa (rows, candidates, reranked, selected are function
\* locals; neither module keeps mutable state outside its functions)
RequestLocal(frames, t) == frames[t]

InitQa ==
    /\ qa_store \in 0..MaxQaStore
    /\ qa \in [QaThreads -> {QaLocals(rq) : rq \in QaRequests}]
    /\ IdleRerank
    /\ IdlePipeline
    /\ IdleChunk
    /\ IdleContext
    /\ IdleEmbed
    /\ IdleIngest
    /\ IdleLibrary
    /\ IdleChat

qaOthers == <<rrVars, pipeVars, chunkVars, ctxVars, embVars, ingVars, libVars, chatVars>>

\* search_development returns; `if not rows: return ...`; the candidates
\* are built on the reranked path
QaRetrieve(t) ==
    LET me == qa[t]
        v == QaVariant(me.req)
    IN  /\ me.pc = "RETRIEVING"
        /\ \E rs \in search_development(qa_store, SearchTopK(v, me.req)) :
             LET next == StageAfterRetrieval(v, rs)
             IN  qa' = [qa EXCEPT ![t] =
                          [me EXCEPT
                             !.rows = rs,
                             !.pc = next,
                             !.candidates = IF next = "RERANKING"
                                            THEN MakeCandidates(rs) ELSE @,
                             !.response = IF next = "NO_CONTEXT"
                                          THEN [returned |-> TRUE,
                                                answer |-> NoContextAnswer(v),
                                                context |-> <<>>]
                                          ELSE @]]
        /\ UNCHANGED <<qa_store, qaOthers>>

\* the embedding call or the query raises
QaRetrieveFails(t) ==
    LET me == qa[t]
    IN  /\ me.pc = "RETRIEVING"
        /\ qa' = [qa EXCEPT ![t] = [me EXCEPT !.pc = "ERROR"]]
        /\ UNCHANGED <<qa_store, qaOthers>>

\* reranked = rerank_candidates(req.question, candidates)
QaRerank(t) ==
    LET me == qa[t]
        mine == RequestLocal(qa, t)
    IN  /\ me.pc = "RERANKING"
        /\ \E outcome \in QaRerankOutcomes(Len(mine.candidates)) :
             LET r == rerank_candidates(mine.candidates, outcome)
             IN  qa' = [qa EXCEPT ![t] =
                          [me EXCEPT
                             !.got_rerank = outcome,
                             !.pc = IF r.raised THEN "ERROR" ELSE "ASSEMBLING",
                             !.reranked = IF r.raised THEN @ ELSE r.result]]
        /\ UNCHANGED <<qa_store, qaOthers>>

\* selected and context_str are built
QaAssemble(t) ==
    LET me == qa[t]
        mine == RequestLocal(qa, t)
    IN  /\ me.pc = "ASSEMBLING"
        /\ qa' = [qa EXCEPT ![t] =
                    IF me.req.use_rerank
                    THEN [me EXCEPT
                            !.selected = Take(mine.reranked, me.req.top_k_final),
                            !.context_str = build_context_from_rows(
                                FakeRows(Take(mine.reranked, me.req.top_k_final)),
                                MaxCharsPerChunk),
                            !.pc = "GENERATING"]
                    ELSE [me EXCEPT
                            !.selected = RowsAsChunks(mine.rows),
                            !.context_str = build_context_from_rows(mine.rows,
                                                                    MaxCharsPerChunk),
                            !.pc = "GENERATING"]]
        /\ UNCHANGED <<qa_store, qaOthers>>

\* answer = call_ollama_chat(prompt); the response is built and returned
QaGenerate(t) ==
    LET me == qa[t]
        mine == RequestLocal(qa, t)
    IN  /\ me.pc = "GENERATING"
        /\ \E outcome \in QaAnswerOutcomes :
             LET chat == call_ollama_chat(outcome)
             IN  qa' = [qa EXCEPT ![t] =
                          [me EXCEPT
                             !.got_answer = outcome,
                             !.pc = IF chat.raised THEN "ERROR" ELSE "DONE",
                             !.response = IF chat.raised THEN @
                                          ELSE [returned |-> TRUE,
                                                answer |-> "model answer",
                                                context |-> Citations(
                                                    QaVariant(me.req),
                                                    mine.selected)]]]
        /\ UNCHANGED <<qa_store, qaOthers>>

NextQa ==
    \E t \in QaThreads :
        \/ QaRetrieve(t)
        \/ QaRetrieveFails(t)
        \/ QaRerank(t)
        \/ QaAssemble(t)
        \/ QaGenerate(t)

SpecQa == InitQa /\ [][NextQa]_vars

-----------------------------------------------------------------------------
(* Claims about concurrent QA requests (checked under SpecQa)              *)

\* what a request run alone holds in its locals, given its body rq, the
\* rows rs its search returned, the replies rrOut and ansOut it received
\* (NoOutcome: none yet) and whether it has built its context
AloneCandidates(rq, rs) ==
    IF StageAfterRetrieval(QaVariant(rq), rs) = "RERANKING"
    THEN MakeCandidates(rs) ELSE <<>>

AloneReranked(rq, rs, rrOut) ==
    IF AloneCandidates(rq, rs) # <<>> /\ rrOut # NoOutcome
    THEN rerank_candidates(AloneCandidates(rq, rs), rrOut).result
    ELSE <<>>

AloneSelected(rq, rs, rrOut) ==
    IF rq.use_rerank THEN Take(AloneReranked(rq, rs, rrOut), rq.top_k_final)
    ELSE RowsAsChunks(rs)

AloneContext(rq, rs, rrOut) ==
    IF rq.use_rerank
    THEN build_context_from_rows(FakeRows(AloneSelected(rq, rs, rrOut)),
                                 MaxCharsPerChunk)
    ELSE build_context_from_rows(rs, MaxCharsPerChunk)

AloneResponse(rq, rs, rrOut, stage) ==
    CASE stage = "DONE" ->
            [returned |-> TRUE, answer |-> "model answer",
             context |-> Citations(QaVariant(rq), AloneSelected(rq, rs, rrOut))]
      [] stage = "NO_CONTEXT" ->
            [returned |-> TRUE, answer |-> NoContextAnswer(QaVariant(rq)),
             context |-> <<>>]
      [] OTHER -> NoResponse

\* the request has built its context
QaAssembled(q) == q.pc \in {"GENERATING", "DONE"} \/ q.got_answer # NoOutcome

\* C22: in every interleaving of the two requests, the candidates, the
\* rerank order, the context and the citations of each request are those
\* the request yields alone from its own body, its own search result and the
\* replies to its own calls; the store stays as it was.
C22_RequestsIndependent ==
    \A t \in QaThreads :
        LET q == qa[t]
        IN  /\ q.rows = <<>> \/
                  q.rows \in search_development(qa_store,
                                                SearchTopK(QaVariant(q.req), q.req))
            /\ q.candidates = AloneCandidates(q.req, q.rows)
            /\ q.reranked = AloneReranked(q.req, q.rows, q.got_rerank)
            /\ q.selected = IF QaAssembled(q)
                            THEN AloneSelected(q.req, q.rows, q.got_rerank)
                            ELSE <<>>
            /\ q.context_str = IF QaAssembled(q)
                               THEN AloneContext(q.req, q.rows, q.got_rerank)
                               ELSE <<>>
            /\ q.response = AloneResponse(q.req, q.rows, q.got_rerank, q.pc)

\* both requests rerank and are in flight at once, one already past its
\* context, and their rerank orders differ
C22_Witness ==
    /\ qa["t1"].req.use_rerank
    /\ qa["t2"].req.use_rerank
    /\ qa["t1"].pc = "GENERATING"
    /\ qa["t2"].pc = "ASSEMBLING"
    /\ Len(qa["t1"].reranked) = 2
    /\ Len(qa["t2"].reranked) = 2
    /\ qa["t1"].reranked # qa["t2"].reranked
    /\ qa["t1"].selected # <<>>

=============================================================================
